---- MODULE Spec2Model ----
(***************************************************************************)
(* Model of the discovery run and graph projection of                      *)
(* aws_resource_discovery: graph/neo4j_client.py (Neo4jClient),            *)
(* core/resource_info.py, core/base_service.py, the services,              *)
(* core/discovery_engine.py and main.py.                                   *)
(*                                                                         *)
(* Strings are TLA+ strings; TLC evaluates Len, SubSeq and \o on them, so  *)
(* Python's substring, prefix and split tests are computed, not assumed.   *)
(* JSON-like property values are tagged records: [s |-> string],           *)
(* [n |-> integer], [b |-> boolean], [none |-> TRUE], [l |-> sequence]     *)
(* and [d |-> sequence of [k, v]] (an insertion-ordered dict).             *)
(***************************************************************************)
EXTENDS Integers, Sequences, FiniteSets, TLC

VARIABLES
    inventory,      \* the provider's resources the enumeration reports, by name, in order
    all_resources,  \* DiscoveryEngine: the records the enumeration returned
    engine_account, \* DiscoveryEngine._account_id ("" while None)
    resources,      \* the list handed to Neo4jClient.add_resources_to_graph
    account_id,     \* Neo4jClient._account_id ("" while None)
    nodes,          \* the stored graph: sequence of [label, props]
    edges,          \* the stored graph: sequence of [src, dst, type, props]
    clock,          \* the database clock read by datetime()
    pc,             \* position inside the run
    run,            \* number of the current discovery run
    epoch,          \* version of the provider state the calls answer from
    clientFails,    \* call sites whose get_service_client returns None
    fetchFails,     \* parent identifiers whose detail fetch raises
    resources_dict, \* add_resources_to_graph's resources_dict, as built in this run
    relationships,  \* candidate edges found by _analyze_resource_usage in this run
    indices,        \* arn_to_resource / id_to_resources / name_to_resources of this run
    writes,         \* history: the resource-node upserts of this run
    expanded,       \* history: <<pattern, parent identifier>> whose expansion completed in this run
    endOfRun,       \* history: per finished run, what it saw and the node and edge counts it left
    max_workers,    \* DiscoveryConfig.max_workers
    config,         \* DiscoveryConfig: update_graph, reset_graph, service_filter, exclude_resources
    faults,         \* the calls of the engine and of the storage driver that fail
    neo4j_client,   \* DiscoveryEngine.neo4j_client is set (FALSE once it is None)
    tasks,          \* _discover_resources_parallel: the state of each submitted service task
    interrupted,    \* a KeyboardInterrupt reached the main thread; what had happened by then
    stats,          \* the counters of the engine and of the services
    exported,       \* the record lists written by _export_results in this run
    returned,       \* the record lists discover_all_resources returned in this run
    failed          \* history: the upserts of this run whose session.run raised

vars == <<inventory, all_resources, engine_account, resources, account_id, nodes, edges, clock, pc, run,
          epoch, clientFails, fetchFails, resources_dict, relationships, indices, writes,
          expanded, endOfRun, max_workers, config, faults, neo4j_client, tasks, interrupted, stats, exported,
          returned, failed>>

\* the state of the enumeration and what the run put out
enumVars == <<tasks, interrupted, stats>>
outVars == <<exported, returned>>

-----------------------------------------------------------------------------
(* Bounds of the model *)

MaxResources == 2
MaxRuns == 2
MaxFailures == 1
MaxFaultyRuns == 1
MaxOptions == 1

-----------------------------------------------------------------------------
(* Python string methods *)

\* sub in s
Contains(s, sub) ==
    \E i \in 1..(Len(s) - Len(sub) + 1) : SubSeq(s, i, i + Len(sub) - 1) = sub

\* s.startswith(p)
StartsWith(s, p) == Len(s) >= Len(p) /\ SubSeq(s, 1, Len(p)) = p

\* s.lower()
RECURSIVE Lower(_)
Lower(s) ==
    LET upper == "ABCDEFGHIJKLMNOPQRSTUVWXYZ"
        lower == "abcdefghijklmnopqrstuvwxyz"
        c == SubSeq(s, 1, 1)
        at == {i \in 1..Len(upper) : SubSeq(upper, i, i) = c}
    IN IF Len(s) = 0 THEN ""
       ELSE (IF at = {} THEN c ELSE LET i == CHOOSE j \in at : TRUE IN SubSeq(lower, i, i))
            \o Lower(SubSeq(s, 2, Len(s)))

\* s.strip() is non-empty
NonBlank(s) == \E i \in 1..Len(s) : SubSeq(s, i, i) # " "

\* s.split(sep)
RECURSIVE Split(_, _)
Split(s, sep) ==
    IF ~Contains(s, sep) THEN <<s>>
    ELSE LET i == CHOOSE j \in 1..(Len(s) - Len(sep) + 1) :
                      /\ SubSeq(s, j, j + Len(sep) - 1) = sep
                      /\ \A h \in 1..(j - 1) : SubSeq(s, h, h + Len(sep) - 1) # sep
         IN <<SubSeq(s, 1, i - 1)>> \o Split(SubSeq(s, i + Len(sep), Len(s)), sep)

RECURSIVE ConcatAll(_)
ConcatAll(ss) == IF Len(ss) = 0 THEN <<>> ELSE Head(ss) \o ConcatAll(Tail(ss))

\* every sequence over S of length at most n
SeqsUpTo(S, n) == UNION {[1..k -> S] : k \in 0..n}

\* the items of a list
Range(s) == {s[i] : i \in 1..Len(s)}

-----------------------------------------------------------------------------
(* JSON-like values *)

VStr(x) == [s |-> x]
VInt(x) == [n |-> x]
VBool(x) == [b |-> x]
VNone == [none |-> TRUE]
VList(xs) == [l |-> xs]
VDict(kvs) == [d |-> kvs]
KV(key, value) == [k |-> key, v |-> value]

IsStr(v) == "s" \in DOMAIN v
IsInt(v) == "n" \in DOMAIN v
IsBool(v) == "b" \in DOMAIN v
IsNone(v) == "none" \in DOMAIN v
IsList(v) == "l" \in DOMAIN v
IsDict(v) == "d" \in DOMAIN v

\* Python truthiness of a value
Truthy(v) ==
    IF IsStr(v) THEN v.s # ""
    ELSE IF IsInt(v) THEN v.n # 0
    ELSE IF IsBool(v) THEN v.b
    ELSE IF IsNone(v) THEN FALSE
    ELSE IF IsList(v) THEN Len(v.l) > 0
    ELSE Len(v.d) > 0

\* key in obj (obj a dict)
HasKey(obj, key) == \E i \in 1..Len(obj.d) : obj.d[i].k = key

\* obj[key]
Get(obj, key) == obj.d[CHOOSE i \in 1..Len(obj.d) : obj.d[i].k = key].v

-----------------------------------------------------------------------------
(* core/resource_info.py and core/base_service.py: the resource record *)

\* ResourceInfo.__post_init__: AWS::EC2::Instance -> ec2
ServiceOf(resource_type) ==
    IF Contains(resource_type, "::") THEN Lower(Split(resource_type, "::")[2]) ELSE ""

ResourceInfo(resource_type, identifier, arn, properties, region, error) ==
    [resource_type |-> resource_type, identifier |-> identifier, arn |-> arn,
     properties |-> properties, service |-> ServiceOf(resource_type),
     region |-> region, error |-> error]

\* the mutant of has_error: an error is never seen
HasErrorNever(r) == FALSE

has_error(r) == r.error # ""

is_valid(r) == r.identifier # "" /\ ~has_error(r)

\* str(x) of a scalar
PyStr(v) ==
    CASE IsStr(v) -> v.s
      [] IsInt(v) -> ToString(v.n)
      [] IsBool(v) -> IF v.b THEN "True" ELSE "False"
      [] IsNone(v) -> "None"

ArnFields == <<"Arn", "ARN", "arn", "ResourceArn", "resource_arn">>

\* BaseAWSService._extract_arn
ExtractArn(properties) ==
    LET hits == {i \in 1..Len(ArnFields) :
                    HasKey(properties, ArnFields[i]) /\ Truthy(Get(properties, ArnFields[i]))}
    IN IF hits = {} THEN ""
       ELSE PyStr(Get(properties, ArnFields[CHOOSE i \in hits : \A j \in hits : i <= j]))

\* DiscoveryConfig.region
Region == "us-east-1"

\* BaseAWSService._parse_resource_description
ParseResourceDescription(resource_type, identifier, properties) ==
    ResourceInfo(resource_type, identifier, ExtractArn(properties), properties, Region, "")

\* BaseAWSService.discover_resource_type, the error-tagged record of a failed type
ErrorResource(resource_type, message) ==
    ResourceInfo(resource_type, "ERROR", "", VDict(<<>>), "", message)

-----------------------------------------------------------------------------
(* Neo4jClient: node type, global services, property flattening *)

\* Neo4jClient._extract_node_type
ExtractNodeType(resource_type) ==
    IF ~StartsWith(resource_type, "AWS::") THEN "UnknownResource"
    ELSE LET parts == Split(resource_type, "::")
         IN IF Len(parts) >= 3 THEN parts[3] ELSE "UnknownResource"

GlobalServices == {"iam", "organizations", "route53", "waf", "wafv2", "artifacts", "controltower"}

\* Neo4jClient._is_global_service
IsGlobalService(service) == Lower(service) \in GlobalServices

RECURSIVE JoinStrings(_, _)
JoinStrings(ss, sep) ==
    IF Len(ss) = 0 THEN ""
    ELSE IF Len(ss) = 1 THEN ss[1]
    ELSE ss[1] \o sep \o JoinStrings(Tail(ss), sep)

\* json.dumps(value)
RECURSIVE JsonDumps(_)
JsonDumps(v) ==
    CASE IsStr(v) -> "\"" \o v.s \o "\""
      [] IsInt(v) -> ToString(v.n)
      [] IsBool(v) -> IF v.b THEN "true" ELSE "false"
      [] IsNone(v) -> "null"
      [] IsList(v) -> "[" \o JoinStrings([i \in 1..Len(v.l) |-> JsonDumps(v.l[i])], ", ") \o "]"
      [] IsDict(v) ->
            "{" \o JoinStrings([i \in 1..Len(v.d) |->
                                   "\"" \o v.d[i].k \o "\": " \o JsonDumps(v.d[i].v)], ", ") \o "}"

\* d[key] = value on a stored property map
Put(f, key, value) == [x \in DOMAIN f \cup {key} |-> IF x = key THEN value ELSE f[x]]

\* flatten_dict inside Neo4jClient._flatten_properties, items taken in order
RECURSIVE FlattenDict(_, _, _)
FlattenDict(kvs, prefix, flattened) ==
    IF Len(kvs) = 0 THEN flattened
    ELSE LET key == kvs[1].k
             value == kvs[1].v
             new_key == IF prefix # "" THEN prefix \o "_" \o key ELSE key
             after ==
                 IF IsDict(value) THEN FlattenDict(value.d, new_key, flattened)
                 ELSE IF IsList(value)
                      THEN Put(flattened, new_key,
                               VStr(IF Len(value.l) > 0 THEN JsonDumps(value) ELSE "[]"))
                 ELSE IF IsStr(value) \/ IsInt(value) \/ IsBool(value)
                      THEN Put(flattened, new_key, value)
                 ELSE Put(flattened, new_key, VStr(""))
         IN FlattenDict(Tail(kvs), prefix, after)

\* Neo4jClient._flatten_properties
FlattenProperties(properties) ==
    IF IsDict(properties) THEN FlattenDict(properties.d, "", <<>>) ELSE <<>>

-----------------------------------------------------------------------------
(* The storage collaborator: Cypher MATCH / MERGE / SET on a property graph. *)
(* A graph value g carries the node and edge sequences and the clock; a node *)
(* or edge is identified by its position.                                    *)

HasProps(props, pattern) ==
    \A k \in DOMAIN pattern : k \in DOMAIN props /\ props[k] = pattern[k]

\* MATCH (n:label {pattern})
MatchNodes(g, label, pattern) ==
    {i \in 1..Len(g.nodes) : g.nodes[i].label = label /\ HasProps(g.nodes[i].props, pattern)}

\* MERGE (n:label {pattern})
MergeNode(g, label, pattern) ==
    IF MatchNodes(g, label, pattern) # {} THEN g
    ELSE [g EXCEPT !.nodes = Append(g.nodes, [label |-> label, props |-> pattern])]

\* SET n += props, for every n in S
SetNodes(g, S, props) ==
    [g EXCEPT !.nodes = [i \in 1..Len(g.nodes) |->
        IF i \in S THEN [label |-> g.nodes[i].label, props |-> props @@ g.nodes[i].props]
        ELSE g.nodes[i]]]

\* MERGE (n:label {pattern}) SET n += props
MergeSetNode(g, label, pattern, props) ==
    LET g1 == MergeNode(g, label, pattern)
    IN SetNodes(g1, MatchNodes(g1, label, pattern), props)

RECURSIVE SortedSeq(_)
SortedSeq(S) ==
    IF S = {} THEN <<>>
    ELSE LET m == CHOOSE x \in S : \A y \in S : x <= y
         IN <<m>> \o SortedSeq(S \ {m})

\* the rows of MATCH (s ...) MATCH (t ...): every pair
Rows(S, T) ==
    LET ss == SortedSeq(S)
        ts == SortedSeq(T)
    IN ConcatAll([i \in 1..Len(ss) |-> [j \in 1..Len(ts) |-> <<ss[i], ts[j]>>]])

MatchEdges(g, s, t, type, pattern) ==
    {i \in 1..Len(g.edges) :
        /\ g.edges[i].src = s /\ g.edges[i].dst = t /\ g.edges[i].type = type
        /\ HasProps(g.edges[i].props, pattern)}

\* MERGE (s)-[:type {pattern}]->(t), once per row
RECURSIVE MergeEdges(_, _, _, _)
MergeEdges(g, rows, type, pattern) ==
    IF Len(rows) = 0 THEN g
    ELSE LET s == rows[1][1]
             t == rows[1][2]
             g1 == IF MatchEdges(g, s, t, type, pattern) # {} THEN g
                   ELSE [g EXCEPT !.edges = Append(g.edges,
                            [src |-> s, dst |-> t, type |-> type, props |-> pattern])]
         IN MergeEdges(g1, Tail(rows), type, pattern)

\* SET r += props, for every edge r of the rows that matches
SetEdges(g, rows, type, pattern, props) ==
    LET hit == UNION {MatchEdges(g, rows[i][1], rows[i][2], type, pattern) : i \in 1..Len(rows)}
    IN [g EXCEPT !.edges = [i \in 1..Len(g.edges) |->
           IF i \in hit THEN [g.edges[i] EXCEPT !.props = props @@ g.edges[i].props]
           ELSE g.edges[i]]]

\* datetime(): the instant of the statement; the next statement runs later
Now(g) == [t |-> g.clock]
Tick(g) == [g EXCEPT !.clock = g.clock + 1]

-----------------------------------------------------------------------------
(* Neo4jClient: account node, resource nodes, ownership edges *)

\* Neo4jClient.reset_graph: MATCH (n) DETACH DELETE n
ResetGraph(g) == [g EXCEPT !.nodes = <<>>, !.edges = <<>>]

\* the mutant of create_account_node: the graph is emptied before the Account node is made
CreateAccountNodeAfresh(g, acct, account_name) ==
    LET pattern == [id |-> VStr(acct)]
        g1 == MergeNode(ResetGraph(g), "Account", pattern)
    IN Tick(SetNodes(g1, MatchNodes(g1, "Account", pattern),
                     [name |-> VStr(account_name), updated_at |-> Now(g)]))

\* the query of Neo4jClient.create_account_node
CreateAccountNode(g, acct, account_name) ==
    LET pattern == [id |-> VStr(acct)]
        g1 == MergeNode(g, "Account", pattern)
    IN Tick(SetNodes(g1, MatchNodes(g1, "Account", pattern),
                     [name |-> VStr(account_name), updated_at |-> Now(g)]))

\* Neo4jClient._create_account_relationship
CreateAccountRelationship(g, acct, unique_value, node_type, unique_key) ==
    MergeEdges(g, Rows(MatchNodes(g, "Account", [id |-> VStr(acct)]),
                       MatchNodes(g, node_type, (unique_key :> VStr(unique_value)))),
               "OWNS", <<>>)

\* the mutant of UniqueKey: the composite key leaves out the resource type
UniqueKeyNoType(resource, acct) ==
    IF resource.arn # "" /\ NonBlank(resource.arn)
    THEN [key |-> "arn", value |-> resource.arn]
    ELSE [key |-> "composite_id",
          value |-> resource.identifier \o ":" \o acct \o ":" \o
                    (IF ~IsGlobalService(resource.service) THEN resource.region ELSE "global")]

\* Neo4jClient._create_resource_node, the key the node is merged on
UniqueKey(resource, acct) ==
    IF resource.arn # "" /\ NonBlank(resource.arn)
    THEN [key |-> "arn", value |-> resource.arn]
    ELSE [key |-> "composite_id",
          value |-> resource.identifier \o ":" \o acct \o ":" \o
                    (IF ~IsGlobalService(resource.service) THEN resource.region ELSE "global")
                    \o ":" \o resource.resource_type]

\* Neo4jClient._create_resource_node, the properties sent with the node
NodeProps(resource, acct) ==
    LET base == [aws_resource_type |-> VStr(resource.resource_type),
                 identifier |-> VStr(resource.identifier),
                 arn |-> VStr(resource.arn),
                 service |-> VStr(resource.service),
                 account_id |-> VStr(acct),
                 updated_at |-> VStr("datetime()")]
        regional == IF ~IsGlobalService(resource.service)
                    THEN Put(base, "region", VStr(resource.region)) ELSE base
        updated == FlattenProperties(resource.properties) @@ regional
        unique == UniqueKey(resource, acct)
    IN IF unique.key = "arn" THEN updated
       ELSE Put(updated, "composite_id", VStr(unique.value))

\* Neo4jClient._create_resource_node
CreateResourceNode(g, resource, acct) ==
    LET node_type == ExtractNodeType(resource.resource_type)
        unique == UniqueKey(resource, acct)
        g1 == MergeSetNode(g, node_type, (unique.key :> VStr(unique.value)),
                           NodeProps(resource, acct))
    IN IF acct # ""
       THEN CreateAccountRelationship(g1, acct, unique.value, node_type, unique.key)
       ELSE g1

-----------------------------------------------------------------------------
(* The provider state the runs describe: Cloud Control resource descriptions *)
(* as BaseAWSService._parse_resource_description normalises them.  A record  *)
(* with an Arn-like property carries it as its arn; EC2 network resources    *)
(* have none.                                                                *)

CurrentAccount == "111111111111"
AccountX == "222222222222"
AccountY == "333333333333"

RoleArn == "arn:aws:iam::111111111111:role/app-role"
ForeignRoleArn == "arn:aws:iam::222222222222:role/app-role"
FnArn == "arn:aws:lambda:us-east-1:111111111111:function:fn-1"
TrailArn == "arn:aws:cloudtrail:us-east-1:111111111111:trail/main"

\* the families of resources an inventory is drawn from
\* the scene the engine is exercised on: with a worker pool, with faults of the engine
\* and of the storage driver, with list calls that raise
EngineScene == <<"Role", "Function", "RouteTable", "ThrottledBuckets", "RateLimitedSubnets">>

Scenes ==
    {<<"Vpc", "Subnet", "RouteTable", "InternetGateway", "FailedRouteTables">>,
     <<"Role", "Function", "Alarm", "Trail", "StateMachine", "Bucket">>,
     <<"Trail", "TrailPolicy", "TrailShadow", "RolePolicy", "RestDomain", "HttpDomain">>,
     <<"DBCluster", "CacheCluster", "Broker", "RestApi", "FailedRoles">>,
     <<"TransitGateway", "PeeringOne", "PeeringTwo", "Vpc", "HostedZone">>,
     EngineScene}

\* the exception the list call raises for a name: its class ("" when the call returns)
\* and its text
Raised(name) ==
    CASE name = "FailedRouteTables" ->
           [class |-> "ClientError", text |-> "AccessDenied: not authorized"]
      [] name = "FailedRoles" ->
           [class |-> "ClientError", text |-> "InternalFailure: try again"]
      [] name = "ThrottledBuckets" ->
           [class |-> "ClientError", text |-> "ThrottlingException: Rate exceeded"]
      [] name = "RateLimitedSubnets" ->
           [class |-> "HTTPClientError", text |-> "429 Too Many Requests"]
      [] OTHER -> [class |-> "", text |-> ""]

\* the record the enumeration returns for a resource at provider state e; Description
\* is an attribute that changes with the provider state
Describe(name, e) ==
    LET Rec(resource_type, identifier, kvs) ==
            ParseResourceDescription(resource_type, identifier, VDict(kvs))
        revision == VStr(IF e = 1 THEN "v1" ELSE "v2")
    IN CASE name = "Vpc" ->
              Rec("AWS::EC2::VPC", "vpc-1",
                  <<KV("VpcId", VStr("vpc-1")), KV("CidrBlock", VStr("10.0.0.0/16")),
                    KV("Description", revision)>>)
         [] name = "Subnet" ->
              Rec("AWS::EC2::Subnet", "subnet-1",
                  <<KV("SubnetId", VStr("subnet-1")), KV("VpcId", VStr("vpc-1"))>>)
         [] name = "RouteTable" ->
              Rec("AWS::EC2::RouteTable", "rtb-1",
                  <<KV("RouteTableId", VStr("rtb-1")), KV("VpcId", VStr("vpc-1"))>>)
         [] name = "InternetGateway" ->
              Rec("AWS::EC2::InternetGateway", "igw-1",
                  <<KV("InternetGatewayId", VStr("igw-1"))>>)
         [] name = "Role" ->
              Rec("AWS::IAM::Role", "app-role",
                  <<KV("Arn", VStr(RoleArn)), KV("RoleName", VStr("app-role")),
                    KV("Description", revision)>>)
         [] name = "Function" ->
              Rec("AWS::Lambda::Function", "fn-1",
                  <<KV("Arn", VStr(FnArn)), KV("FunctionName", VStr("fn-1")),
                    KV("Role", VStr(RoleArn)),
                    KV("VpcConfig",
                       VDict(<<KV("SubnetIds", VList(<<VStr("subnet-1")>>))>>))>>)
         [] name = "Alarm" ->
              Rec("AWS::CloudWatch::Alarm", "cpu",
                  <<KV("Arn", VStr("arn:aws:cloudwatch:us-east-1:111111111111:alarm:cpu")),
                    KV("AlarmName", VStr("cpu")),
                    KV("AlarmActions", VList(<<VStr(FnArn)>>))>>)
         [] name = "Trail" ->
              Rec("AWS::CloudTrail::Trail", "main",
                  <<KV("Arn", VStr(TrailArn)), KV("TrailName", VStr("main")),
                    KV("S3BucketName", VStr("logs-bucket")),
                    KV("CloudWatchLogsRoleArn", VStr(RoleArn))>>)
         [] name = "TrailShadow" ->
              Rec("AWS::CloudTrail::Trail", "main",
                  <<KV("Arn", VStr(TrailArn)), KV("TrailName", VStr("main")),
                    KV("IsMultiRegionTrail", VBool(TRUE))>>)
         [] name = "TrailPolicy" ->
              Rec("AWS::CloudTrail::ResourcePolicy", TrailArn,
                  <<KV("ResourceArn", VStr(TrailArn)), KV("ResourcePolicy", VStr("{}"))>>)
         [] name = "Bucket" ->
              Rec("AWS::S3::Bucket", "logs-bucket",
                  <<KV("Arn", VStr("arn:aws:s3:::logs-bucket")),
                    KV("BucketName", VStr("logs-bucket")),
                    KV("NotificationConfiguration",
                       VDict(<<KV("LambdaConfigurations",
                                  VList(<<VDict(<<KV("Event", VStr("s3:ObjectCreated:*")),
                                                  KV("Function", VStr(FnArn))>>)>>))>>))>>)
         [] name = "StateMachine" ->
              Rec("AWS::StepFunctions::StateMachine", "flow",
                  <<KV("Arn", VStr("arn:aws:states:us-east-1:111111111111:stateMachine:flow")),
                    KV("StateMachineName", VStr("flow")),
                    KV("RoleArn", VStr(ForeignRoleArn))>>)
         [] name = "RolePolicy" ->
              Rec("AWS::IAM::RolePolicy", "inline|app-role",
                  <<KV("PolicyName", VStr("inline")), KV("RoleName", VStr("app-role"))>>)
         [] name = "HostedZone" ->
              Rec("AWS::Route53::HostedZone", "Z1",
                  <<KV("Id", VStr("Z1")), KV("Name", VStr("example.com.")),
                    KV("region", VStr("us-east-1")), KV("service", VStr("dns"))>>)
         [] name = "RestDomain" ->
              Rec("AWS::ApiGateway::DomainName", "api.example.com",
                  <<KV("DomainName", VStr("api.example.com"))>>)
         [] name = "HttpDomain" ->
              Rec("AWS::ApiGatewayV2::DomainName", "api.example.com",
                  <<KV("DomainName", VStr("api.example.com"))>>)
         [] name = "DBCluster" ->
              Rec("AWS::RDS::DBCluster", "cluster-1",
                  <<KV("DBClusterIdentifier", VStr("cluster-1")),
                    KV("DBClusterArn",
                       VStr("arn:aws:rds:us-east-1:111111111111:cluster:cluster-1"))>>)
         [] name = "CacheCluster" ->
              Rec("AWS::ElastiCache::CacheCluster", "cache-1",
                  <<KV("ClusterName", VStr("cache-1"))>>)
         [] name = "Broker" ->
              Rec("AWS::MQ::Broker", "b-1",
                  <<KV("Arn", VStr("arn:aws:mq:us-east-1:111111111111:broker:b-1")),
                    KV("BrokerName", VStr("orders"))>>)
         [] name = "RestApi" ->
              Rec("AWS::ApiGateway::RestApi", "api-1",
                  <<KV("RestApiId", VStr("api-1")), KV("Name", VStr("orders"))>>)
         [] name = "TransitGateway" ->
              Rec("AWS::EC2::TransitGateway", "tgw-1", <<KV("Id", VStr("tgw-1"))>>)
         [] name = "PeeringOne" ->
              Rec("AWS::EC2::VPCPeeringConnection", "pcx-1",
                  <<KV("Id", VStr("pcx-1")), KV("VpcId", VStr("vpc-1"))>>)
         [] name = "PeeringTwo" ->
              Rec("AWS::EC2::VPCPeeringConnection", "pcx-2", <<KV("Id", VStr("pcx-2"))>>)
         [] name = "FailedRouteTables" ->
              ErrorResource("AWS::EC2::RouteTable", Raised(name).text)
         [] name = "FailedRoles" ->
              ErrorResource("AWS::IAM::Role", Raised(name).text)
         [] name = "ThrottledBuckets" ->
              ErrorResource("AWS::S3::Bucket", Raised(name).text)
         [] name = "RateLimitedSubnets" ->
              ErrorResource("AWS::EC2::Subnet", Raised(name).text)

-----------------------------------------------------------------------------
(* The answers of the describe-style detail calls, by parent identifier and  *)
(* provider state.  A call for an identifier the provider does not know      *)
(* raises, as does a call the environment makes fail.                        *)

\* obj.get(key, default)
GetOr(obj, key, default) == IF HasKey(obj, key) THEN Get(obj, key) ELSE default

\* ec2.describe_route_tables(RouteTableIds=[id])
DescribeRouteTables(id, e) ==
    VDict(<<KV("RouteTables", VList(<<VDict(<<KV("RouteTableId", VStr(id)),
        KV("Routes", VList(<<
            VDict(<<KV("DestinationCidrBlock", VStr("10.0.0.0/16")),
                    KV("GatewayId", VStr("local")), KV("State", VStr("active")),
                    KV("Origin", VStr("CreateRouteTable"))>>),
            VDict(<<KV("DestinationCidrBlock", VStr("0.0.0.0/0")),
                    KV("GatewayId", VStr("igw-1")),
                    KV("State", VStr(IF e = 1 THEN "active" ELSE "blackhole")),
                    KV("Origin", VStr("CreateRoute"))>>)>>))>>)>>))>>)

\* rds.describe_db_clusters(DBClusterIdentifier=id); a failover moves the writer
DescribeDBClusters(id, e) ==
    VDict(<<KV("DBClusters", VList(<<VDict(<<KV("DBClusterIdentifier", VStr(id)),
        KV("DBClusterMembers", VList(<<
            VDict(<<KV("DBInstanceIdentifier", VStr("db-1")),
                    KV("IsClusterWriter", VBool(e = 1)), KV("PromotionTier", VInt(1))>>)>>)),
        KV("DBClusterParameterGroup", VStr("default.aurora-mysql8.0"))>>)>>))>>)

\* elasticache.describe_cache_clusters(CacheClusterId=id, ShowCacheNodeInfo=True)
DescribeCacheClusters(id, e) ==
    VDict(<<KV("CacheClusters", VList(<<VDict(<<KV("CacheClusterId", VStr(id)),
        KV("CacheNodes", VList(<<
            VDict(<<KV("CacheNodeId", VStr("0001")),
                    KV("CacheNodeStatus", VStr(IF e = 1 THEN "available" ELSE "rebooting")),
                    KV("Endpoint", VDict(<<KV("Address", VStr("cache-1.example")),
                                           KV("Port", VInt(6379))>>))>>)>>))>>)>>))>>)

\* mq.describe_broker(BrokerId=id)
DescribeBroker(id, e) ==
    VDict(<<KV("BrokerId", VStr(id)),
        KV("BrokerInstances", VList(<<
            VDict(<<KV("ConsoleURL", VStr("https://mq.example/console-1")),
                    KV("Endpoints", VList(<<VStr("ssl://mq.example:61617")>>)),
                    KV("IpAddress", VStr(IF e = 1 THEN "10.0.0.5" ELSE "10.0.0.6"))>>)>>))>>)

\* apigateway.get_stages(restApiId=id)
GetStages(id, e) ==
    VDict(<<KV("item", VList(<<
        VDict(<<KV("stageName", VStr("prod")),
                KV("deploymentId", VStr(IF e = 1 THEN "dep-1" ELSE "dep-2")),
                KV("cacheClusterEnabled", VBool(FALSE))>>)>>))>>)

\* ec2.describe_transit_gateway_vpc_attachments(Filters=[transit-gateway-id = id])
DescribeTransitGatewayVpcAttachments(id, e) ==
    VDict(<<KV("TransitGatewayVpcAttachments", VList(<<
        VDict(<<KV("TransitGatewayAttachmentId", VStr("tgw-attach-1")),
                KV("VpcId", VStr("vpc-9")), KV("VpcOwnerId", VStr(AccountX))>>),
        VDict(<<KV("TransitGatewayAttachmentId", VStr("tgw-attach-2")),
                KV("VpcId", VStr("vpc-1")), KV("VpcOwnerId", VStr(CurrentAccount))>>)>>))>>)

\* ec2.describe_vpc_peering_connections(VpcPeeringConnectionIds=[id]):
\* pcx-1 joins two foreign accounts' sides, pcx-2 peers two VPCs of this account
DescribeVpcPeeringConnections(id, e) ==
    VDict(<<KV("VpcPeeringConnections", VList(<<
        VDict(<<KV("VpcPeeringConnectionId", VStr(id)),
                KV("AccepterVpcInfo",
                   VDict(<<KV("OwnerId", VStr(IF id = "pcx-1" THEN AccountX ELSE CurrentAccount)),
                           KV("VpcId", VStr("vpc-8"))>>)),
                KV("RequesterVpcInfo",
                   VDict(<<KV("OwnerId", VStr(IF id = "pcx-1" THEN AccountY ELSE CurrentAccount)),
                           KV("VpcId", VStr("vpc-1"))>>)),
                KV("Status", VDict(<<KV("Code", VStr("active"))>>))>>)>>))>>)

\* the identifiers each describe call knows
KnownParents ==
    [routes |-> {"rtb-1"}, rds |-> {"cluster-1"}, elasticache |-> {"cache-1"}, mq |-> {"b-1"},
     apigateway |-> {"api-1"}, tgw |-> {"tgw-1"}, peering |-> {"pcx-1", "pcx-2"}]

\* the detail call of a pattern for a parent returns (does not raise)
FetchReturns(pattern, id, failing) == id \in KnownParents[pattern] /\ id \notin failing

-----------------------------------------------------------------------------
(* Neo4jClient.add_resources_to_graph: the dictionary handed to expansion *)

\* d[key] = info on an insertion-ordered dict kept as a sequence of [arn, info]
DictPut(d, key, info) ==
    IF \E i \in 1..Len(d) : d[i].arn = key
    THEN [i \in 1..Len(d) |-> IF d[i].arn = key THEN [arn |-> key, info |-> info] ELSE d[i]]
    ELSE Append(d, [arn |-> key, info |-> info])

\* the resources_dict loop of add_resources_to_graph
RECURSIVE BuildResourcesDict(_, _)
BuildResourcesDict(rs, d) ==
    IF Len(rs) = 0 THEN d
    ELSE LET resource == Head(rs)
             info == [resource_type |-> resource.resource_type,
                      identifier |-> resource.identifier,
                      service |-> resource.service,
                      region |-> resource.region,
                      properties |-> resource.properties]
         IN BuildResourcesDict(Tail(rs),
                IF ~has_error(resource) /\ is_valid(resource)
                THEN DictPut(d, resource.arn, info) ELSE d)

\* [(arn, info) for arn, info in resources.items() if info.get('resource_type') == type]
OfType(d, resource_type) == SelectSeq(d, LAMBDA entry : entry.info.resource_type = resource_type)

\* {k: v for k, v in properties.items() if v}
Truthies(properties) == [k \in {x \in DOMAIN properties : Truthy(properties[x])} |-> properties[k]]

\* Neo4jClient._get_account_id
ClientAccountId(acct) == IF acct # "" THEN acct ELSE "unknown"

\* MATCH (a:la {pa}) MATCH (b:lb {pb}) MERGE (a)-[:type]->(b)
MatchMatchMerge(g, la, pa, lb, pb, type) ==
    MergeEdges(g, Rows(MatchNodes(g, la, pa), MatchNodes(g, lb, pb)), type, <<>>)

ArnIs(a) == [arn |-> VStr(a)]

\* a for loop over a list: the body applied to the items in order
RECURSIVE ForEach(_, _, _)
ForEach(Body(_, _), g, items) ==
    IF Len(items) = 0 THEN g ELSE ForEach(Body, Body(g, Head(items)), Tail(items))

-----------------------------------------------------------------------------
(* Neo4jClient._create_route_rules, _create_route_target_relationships *)

target_mappings ==
    <<[prop |-> "gateway_id", type |-> "AWS::EC2::InternetGateway"],
      [prop |-> "nat_gateway_id", type |-> "AWS::EC2::NatGateway"],
      [prop |-> "instance_id", type |-> "AWS::EC2::Instance"],
      [prop |-> "network_interface_id", type |-> "AWS::EC2::NetworkInterface"],
      [prop |-> "transit_gateway_id", type |-> "AWS::EC2::TransitGateway"],
      [prop |-> "vpc_peering_connection_id", type |-> "AWS::EC2::VPCPeeringConnection"]>>

\* Neo4jClient._create_route_target_relationships, mappings k.. of the table
RECURSIVE CreateRouteTargetRelationships(_, _, _, _)
CreateRouteTargetRelationships(g, route_properties, d, k) ==
    IF k > Len(target_mappings) THEN g
    ELSE LET prop_name == target_mappings[k].prop
             resource_type == target_mappings[k].type
             target_id == IF prop_name \in DOMAIN route_properties
                          THEN route_properties[prop_name].s ELSE ""
             hits == {i \in 1..Len(d) : /\ d[i].info.resource_type = resource_type
                                        /\ d[i].info.identifier = target_id}
             target_arn == IF hits = {} THEN ""
                           ELSE d[CHOOSE i \in hits : \A j \in hits : i <= j].arn
             g1 == IF target_id # "" /\ target_id # "local" /\ target_arn # ""
                   THEN MatchMatchMerge(g, "RouteRule", ArnIs(route_properties.arn.s),
                                        ExtractNodeType(resource_type), ArnIs(target_arn),
                                        "ROUTES_TO")
                   ELSE g
         IN CreateRouteTargetRelationships(g1, route_properties, d, k + 1)

\* the route_properties dictionary of route number i of a route table
RouteProperties(route, i, route_table_id, acct) ==
    LET route_id == route_table_id \o "_route_" \o ToString(i)
        field(name) == GetOr(route, name, VStr(""))
    IN Truthies(
        [route_id |-> VStr(route_id),
         route_table_id |-> VStr(route_table_id),
         destination_cidr_block |-> field("DestinationCidrBlock"),
         destination_ipv6_cidr_block |-> field("DestinationIpv6CidrBlock"),
         destination_prefix_list_id |-> field("DestinationPrefixListId"),
         gateway_id |-> field("GatewayId"),
         instance_id |-> field("InstanceId"),
         instance_owner_id |-> field("InstanceOwnerId"),
         network_interface_id |-> field("NetworkInterfaceId"),
         transit_gateway_id |-> field("TransitGatewayId"),
         vpc_peering_connection_id |-> field("VpcPeeringConnectionId"),
         nat_gateway_id |-> field("NatGatewayId"),
         carrier_gateway_id |-> field("CarrierGatewayId"),
         local_gateway_id |-> field("LocalGatewayId"),
         core_network_arn |-> field("CoreNetworkArn"),
         state |-> field("State"),
         origin |-> field("Origin"),
         arn |-> VStr("arn:aws:ec2:" \o Region \o ":" \o ClientAccountId(acct)
                      \o ":route/" \o route_id),
         resource_type |-> VStr("AWS::EC2::RouteRule"),
         service |-> VStr("ec2"),
         region |-> VStr(Region),
         account_id |-> VStr(ClientAccountId(acct))])

\* the body of the enumerate(routes) loop, routes i.. (numbered from 0) of one route table
RECURSIVE CreateRoutes(_, _, _, _, _, _, _)
CreateRoutes(g, routes, i, route_table_id, route_table_arn, acct, d) ==
    IF i >= Len(routes) THEN g
    ELSE LET route_properties == RouteProperties(routes[i + 1], i, route_table_id, acct)
             route_arn == route_properties.arn.s
             g1 == MergeSetNode(g, "RouteRule", ArnIs(route_arn), route_properties)
             g2 == MatchMatchMerge(g1, "Account", [id |-> VStr(ClientAccountId(acct))],
                                   "RouteRule", ArnIs(route_arn), "OWNS")
             g3 == MatchMatchMerge(g2, "RouteTable", ArnIs(route_table_arn),
                                   "RouteRule", ArnIs(route_arn), "HAS_ROUTE")
             g4 == CreateRouteTargetRelationships(g3, route_properties, d, 1)
         IN CreateRoutes(g4, routes, i + 1, route_table_id, route_table_arn, acct, d)

\* Neo4jClient._create_route_rules
CreateRouteRules(g, d, acct, e, clientFailing, failing) ==
    IF "routes" \in clientFailing THEN g
    ELSE ForEach(LAMBDA g0, parent :
            LET route_table_arn == parent.arn
                route_table_id == parent.info.identifier
            IN IF route_table_id = "" \/ ~FetchReturns("routes", route_table_id, failing) THEN g0
               ELSE ForEach(LAMBDA g1, route_table :
                        CreateRoutes(g1, GetOr(route_table, "Routes", VList(<<>>)).l, 0,
                                     route_table_id, route_table_arn, acct, d),
                        g0, GetOr(DescribeRouteTables(route_table_id, e), "RouteTables",
                                  VList(<<>>)).l),
            g, OfType(d, "AWS::EC2::RouteTable"))

-----------------------------------------------------------------------------
(* Neo4jClient._create_rds_components ... _create_vpc_peering_components *)

\* MERGE (n:label {props}) WITH n MATCH (account:Account {id}) MERGE (account)-[:OWNS]->(n)
\* WITH n MATCH (parent:parent_label {arn}) MERGE (parent)-[:rel]->(n)
MergeOwnedChild(g, label, props, acct, parent_label, parent_arn, rel) ==
    LET g1 == MergeNode(g, label, props)
        n == MatchNodes(g1, label, props)
        accounts == MatchNodes(g1, "Account", [id |-> VStr(acct)])
        g2 == MergeEdges(g1, Rows(accounts, n), "OWNS", <<>>)
        parents == IF accounts = {} THEN {} ELSE MatchNodes(g2, parent_label, ArnIs(parent_arn))
    IN MergeEdges(g2, Rows(parents, n), rel, <<>>)

\* the member_query of one cluster member
CreateClusterMember(g, member, cluster_arn, acct) ==
    LET instance_id == GetOr(member, "DBInstanceIdentifier", VNone)
    IN IF ~Truthy(instance_id) THEN g
       ELSE MergeOwnedChild(g, "RDSClusterMember",
                [arn |-> VStr("arn:aws:rds:" \o Region \o ":" \o ClientAccountId(acct)
                              \o ":db:" \o instance_id.s),
                 instance_id |-> instance_id,
                 is_writer |-> GetOr(member, "IsClusterWriter", VBool(FALSE)),
                 promotion_tier |-> GetOr(member, "PromotionTier", VInt(0)),
                 resource_type |-> VStr("AWS::RDS::DBClusterMember"),
                 service |-> VStr("rds"),
                 region |-> VStr(Region),
                 account_id |-> VStr(ClientAccountId(acct))],
                ClientAccountId(acct), "DBCluster", cluster_arn, "HAS_MEMBER")

\* the param_query of one cluster
CreateParameterGroup(g, cluster, cluster_arn, acct) ==
    LET param_group == GetOr(cluster, "DBClusterParameterGroup", VNone)
    IN IF ~Truthy(param_group) THEN g
       ELSE MergeOwnedChild(g, "RDSParameterGroup",
                [arn |-> VStr("arn:aws:rds:" \o Region \o ":" \o ClientAccountId(acct)
                              \o ":cluster-pg:" \o param_group.s),
                 name |-> param_group,
                 resource_type |-> VStr("AWS::RDS::DBClusterParameterGroup"),
                 service |-> VStr("rds"),
                 region |-> VStr(Region),
                 account_id |-> VStr(ClientAccountId(acct))],
                ClientAccountId(acct), "DBCluster", cluster_arn, "USES_PARAMETER_GROUP")

\* Neo4jClient._create_rds_components
CreateRdsComponents(g, d, acct, e, clientFailing, failing) ==
    IF "rds" \in clientFailing THEN g
    ELSE ForEach(LAMBDA g0, parent :
            LET cluster_arn == parent.arn
                cluster_id == parent.info.identifier
            IN IF cluster_id = "" \/ ~FetchReturns("rds", cluster_id, failing) THEN g0
               ELSE ForEach(LAMBDA g1, cluster :
                        CreateParameterGroup(
                            ForEach(LAMBDA g2, member :
                                        CreateClusterMember(g2, member, cluster_arn, acct),
                                    g1, GetOr(cluster, "DBClusterMembers", VList(<<>>)).l),
                            cluster, cluster_arn, acct),
                        g0, GetOr(DescribeDBClusters(cluster_id, e), "DBClusters", VList(<<>>)).l),
            g, OfType(d, "AWS::RDS::DBCluster"))

\* MERGE (n:label {arn}) SET n += properties, then
\* MATCH (parent:parent_label {arn}) MATCH (n:label {arn}) MERGE (parent)-[:rel]->(n)
MergeChild(g, label, properties, parent_label, parent_arn, rel) ==
    MatchMatchMerge(MergeSetNode(g, label, ArnIs(properties.arn.s), properties),
                    parent_label, ArnIs(parent_arn), label, ArnIs(properties.arn.s), rel)

\* Neo4jClient._create_elasticache_components
CreateElastiCacheComponents(g, d, acct, e, clientFailing, failing) ==
    IF "elasticache" \in clientFailing THEN g
    ELSE ForEach(LAMBDA g0, parent :
            LET cluster_arn == parent.arn
                cluster_id == parent.info.identifier
            IN IF cluster_id = "" \/ ~FetchReturns("elasticache", cluster_id, failing) THEN g0
               ELSE ForEach(LAMBDA g1, cluster :
                        ForEach(LAMBDA g2, node :
                            LET node_id == GetOr(node, "CacheNodeId", VNone)
                                endpoint == GetOr(node, "Endpoint", VDict(<<>>))
                            IN IF ~Truthy(node_id) THEN g2
                               ELSE MergeChild(g2, "ElastiCacheNode", Truthies(
                                   [arn |-> VStr("arn:aws:elasticache:" \o Region \o ":"
                                                 \o ClientAccountId(acct) \o ":cachenode:"
                                                 \o cluster_id \o ":" \o node_id.s),
                                    node_id |-> node_id,
                                    cluster_id |-> VStr(cluster_id),
                                    node_status |-> GetOr(node, "CacheNodeStatus", VStr("")),
                                    creation_time |->
                                        VStr(PyStr(GetOr(node, "CacheNodeCreateTime", VStr("")))),
                                    endpoint_address |-> GetOr(endpoint, "Address", VStr("")),
                                    endpoint_port |-> GetOr(endpoint, "Port", VInt(0)),
                                    parameter_group_status |->
                                        GetOr(node, "ParameterGroupStatus", VStr("")),
                                    resource_type |-> VStr("AWS::ElastiCache::CacheNode"),
                                    service |-> VStr("elasticache"),
                                    region |-> VStr(Region)]),
                                   "CacheCluster", cluster_arn, "HAS_NODE"),
                            g1, GetOr(cluster, "CacheNodes", VList(<<>>)).l),
                        g0, GetOr(DescribeCacheClusters(cluster_id, e), "CacheClusters",
                                  VList(<<>>)).l),
            g, OfType(d, "AWS::ElastiCache::CacheCluster"))

\* str(x) of a list of strings
PyStrList(v) == "[" \o JoinStrings([i \in 1..Len(v.l) |-> "'" \o v.l[i].s \o "'"], ", ") \o "]"

\* s.split(sep)[-1]
LastPart(s, sep) == LET parts == Split(s, sep) IN parts[Len(parts)]

\* Neo4jClient._create_mq_components
CreateMqComponents(g, d, acct, e, clientFailing, failing) ==
    IF "mq" \in clientFailing THEN g
    ELSE ForEach(LAMBDA g0, parent :
            LET broker_arn == parent.arn
                broker_id == parent.info.identifier
            IN IF broker_id = "" \/ ~FetchReturns("mq", broker_id, failing) THEN g0
               ELSE ForEach(LAMBDA g1, instance :
                        LET console_url == GetOr(instance, "ConsoleURL", VStr(""))
                            instance_id == IF Truthy(console_url)
                                           THEN LastPart(console_url.s, "/")
                                           ELSE broker_id \o "_instance"
                        IN MergeChild(g1, "MQBrokerInstance", Truthies(
                               [arn |-> VStr("arn:aws:mq:" \o Region \o ":"
                                             \o ClientAccountId(acct) \o ":broker-instance:"
                                             \o broker_id \o ":" \o instance_id),
                                broker_id |-> VStr(broker_id),
                                console_url |-> console_url,
                                endpoints |->
                                    VStr(PyStrList(GetOr(instance, "Endpoints", VList(<<>>)))),
                                ip_address |-> GetOr(instance, "IpAddress", VStr("")),
                                resource_type |-> VStr("AWS::MQ::BrokerInstance"),
                                service |-> VStr("mq"),
                                region |-> VStr(Region)]),
                               "Broker", broker_arn, "HAS_INSTANCE"),
                        g0, GetOr(DescribeBroker(broker_id, e), "BrokerInstances", VList(<<>>)).l),
            g, OfType(d, "AWS::MQ::Broker"))

\* Neo4jClient._create_apigateway_components
CreateApiGatewayComponents(g, d, acct, e, clientFailing, failing) ==
    IF "apigateway" \in clientFailing \/ "apigatewayv2" \in clientFailing THEN g
    ELSE ForEach(LAMBDA g0, parent :
            LET api_arn == parent.arn
                api_id == parent.info.identifier
            IN IF api_id = "" \/ ~FetchReturns("apigateway", api_id, failing) THEN g0
               ELSE ForEach(LAMBDA g1, stage :
                        LET stage_name == GetOr(stage, "stageName", VNone)
                        IN IF ~Truthy(stage_name) THEN g1
                           ELSE MergeChild(g1, "ApiGatewayStage", Truthies(
                               [arn |-> VStr("arn:aws:apigateway:" \o Region \o "::/restapis/"
                                             \o api_id \o "/stages/" \o stage_name.s),
                                stage_name |-> stage_name,
                                api_id |-> VStr(api_id),
                                deployment_id |-> GetOr(stage, "deploymentId", VStr("")),
                                description |-> GetOr(stage, "description", VStr("")),
                                cache_cluster_enabled |->
                                    GetOr(stage, "cacheClusterEnabled", VBool(FALSE)),
                                created_date |-> VStr(PyStr(GetOr(stage, "createdDate", VStr("")))),
                                resource_type |-> VStr("AWS::ApiGateway::Stage"),
                                service |-> VStr("apigateway"),
                                region |-> VStr(Region)]),
                               "RestApi", api_arn, "HAS_STAGE"),
                        g0, GetOr(GetStages(api_id, e), "item", VList(<<>>)).l),
            g, OfType(d, "AWS::ApiGateway::RestApi"))

\* the cross_account_query: MERGE both Account nodes, then MERGE the edge on its whole
\* property map, created_at: datetime() included
MergeCrossAccount(g, source_account_id, target_account_id, type, props) ==
    LET g1 == MergeNode(g, "Account", [id |-> VStr(source_account_id)])
        g2 == MergeNode(g1, "Account", [id |-> VStr(target_account_id)])
    IN Tick(MergeEdges(g2, Rows(MatchNodes(g2, "Account", [id |-> VStr(source_account_id)]),
                                MatchNodes(g2, "Account", [id |-> VStr(target_account_id)])),
                       type, Put(props, "created_at", Now(g))))

\* Neo4jClient._create_transit_gateway_components
CreateTransitGatewayComponents(g, d, acct, e, clientFailing, failing) ==
    IF "tgw" \in clientFailing THEN g
    ELSE ForEach(LAMBDA g0, parent :
            LET tgw_id == parent.info.identifier
            IN IF tgw_id = "" \/ ~FetchReturns("tgw", tgw_id, failing) THEN g0
               ELSE ForEach(LAMBDA g1, vpc_attachment :
                        LET vpc_owner_id == GetOr(vpc_attachment, "VpcOwnerId", VStr(""))
                            current_account_id == ClientAccountId(acct)
                        IN IF Truthy(vpc_owner_id) /\ vpc_owner_id.s # current_account_id
                           THEN MergeCrossAccount(g1, current_account_id, vpc_owner_id.s,
                                    "CONNECTED_VIA_TRANSIT_GATEWAY",
                                    [transit_gateway_id |-> VStr(tgw_id),
                                     attachment_id |-> GetOr(vpc_attachment,
                                                             "TransitGatewayAttachmentId", VStr("")),
                                     connection_type |-> VStr("Transit Gateway VPC Attachment"),
                                     vpc_id |-> GetOr(vpc_attachment, "VpcId", VStr(""))])
                           ELSE g1,
                        g0, GetOr(DescribeTransitGatewayVpcAttachments(tgw_id, e),
                                  "TransitGatewayVpcAttachments", VList(<<>>)).l),
            g, OfType(d, "AWS::EC2::TransitGateway"))

\* the cross_account_targets list of one peering connection description
CrossAccountTargets(pcx, current_account_id) ==
    LET accepter_owner_id == GetOr(GetOr(pcx, "AccepterVpcInfo", VDict(<<>>)), "OwnerId", VStr(""))
        requester_owner_id == GetOr(GetOr(pcx, "RequesterVpcInfo", VDict(<<>>)), "OwnerId", VStr(""))
    IN (IF Truthy(accepter_owner_id) /\ accepter_owner_id.s # current_account_id
        THEN <<accepter_owner_id.s>> ELSE <<>>)
       \o (IF Truthy(requester_owner_id) /\ requester_owner_id.s # current_account_id
           THEN <<requester_owner_id.s>> ELSE <<>>)

\* Neo4jClient._create_vpc_peering_components
CreateVpcPeeringComponents(g, d, acct, e, clientFailing, failing) ==
    IF "peering" \in clientFailing THEN g
    ELSE ForEach(LAMBDA g0, parent :
            LET pcx_id == parent.info.identifier
            IN IF pcx_id = "" \/ ~FetchReturns("peering", pcx_id, failing) THEN g0
               ELSE ForEach(LAMBDA g1, pcx :
                        ForEach(LAMBDA g2, target_account_id :
                            MergeCrossAccount(g2, ClientAccountId(acct), target_account_id,
                                "CONNECTED_VIA_VPC_PEERING",
                                [peering_connection_id |-> VStr(pcx_id),
                                 connection_type |-> VStr("VPC Peering Connection"),
                                 accepter_vpc_id |->
                                     GetOr(GetOr(pcx, "AccepterVpcInfo", VDict(<<>>)),
                                           "VpcId", VStr("")),
                                 requester_vpc_id |->
                                     GetOr(GetOr(pcx, "RequesterVpcInfo", VDict(<<>>)),
                                           "VpcId", VStr("")),
                                 status |-> GetOr(GetOr(pcx, "Status", VDict(<<>>)),
                                                  "Code", VStr(""))]),
                            g1, CrossAccountTargets(pcx, ClientAccountId(acct))),
                        g0, GetOr(DescribeVpcPeeringConnections(pcx_id, e),
                                  "VpcPeeringConnections", VList(<<>>)).l),
            g, OfType(d, "AWS::EC2::VPCPeeringConnection"))

-----------------------------------------------------------------------------
(* Neo4jClient._create_resource_relationships: the lookup indices *)

name_fields ==
    {"Name", "BucketName", "VpcId", "SubnetId", "GroupId", "GroupName",
     "InstanceId", "VolumeId", "SnapshotId", "ImageId", "KeyName",
     "RoleName", "PolicyName", "UserName", "FunctionName", "TableName",
     "ClusterName", "DBName", "DBInstanceIdentifier", "TopicArn"}

IsContainer(v) == IsDict(v) \/ IsList(v)

\* extract_names inside Neo4jClient._extract_name_keys
RECURSIVE ExtractNames(_)
ExtractNames(obj) ==
    IF IsDict(obj)
    THEN UNION {LET key == obj.d[i].k
                    value == obj.d[i].v
                IN IF key \in name_fields /\ IsStr(value) /\ value.s # "" THEN {value.s}
                   ELSE IF IsContainer(value) THEN ExtractNames(value)
                   ELSE {} : i \in 1..Len(obj.d)}
    ELSE IF IsList(obj)
    THEN UNION {IF IsContainer(obj.l[i]) THEN ExtractNames(obj.l[i]) ELSE {} : i \in 1..Len(obj.l)}
    ELSE {}

\* Neo4jClient._extract_name_keys
ExtractNameKeys(resource) ==
    IF ~Truthy(resource.properties) THEN {} ELSE ExtractNames(resource.properties)

\* index[key].append(resource) for every key of keys, on a map from strings to lists
AppendUnder(index, keys, resource) ==
    [k \in DOMAIN index \cup keys |->
        IF k \in keys
        THEN (IF k \in DOMAIN index THEN Append(index[k], resource) ELSE <<resource>>)
        ELSE index[k]]

\* the index-building loop of Neo4jClient._create_resource_relationships
RECURSIVE BuildIndices(_, _)
BuildIndices(rs, ix) ==
    IF Len(rs) = 0 THEN ix
    ELSE LET resource == Head(rs)
         IN BuildIndices(Tail(rs),
                IF has_error(resource) THEN ix
                ELSE [arn_to_resource |->
                          IF resource.arn # ""
                          THEN Put(ix.arn_to_resource, resource.arn, resource)
                          ELSE ix.arn_to_resource,
                      id_to_resources |->
                          IF resource.identifier # ""
                          THEN AppendUnder(ix.id_to_resources, {resource.identifier}, resource)
                          ELSE ix.id_to_resources,
                      name_to_resources |->
                          AppendUnder(ix.name_to_resources, ExtractNameKeys(resource), resource)])

EmptyIndices == [arn_to_resource |-> <<>>, id_to_resources |-> <<>>, name_to_resources |-> <<>>]

-----------------------------------------------------------------------------
(* Neo4jClient._determine_usage_relationship and the seven finders *)

\* any(db in target_type for db in ['DB', 'Database', 'RDS'])
LooksLikeDatabase(target_type) ==
    Contains(target_type, "DB") \/ Contains(target_type, "Database") \/ Contains(target_type, "RDS")

\* Neo4jClient._determine_usage_relationship
DetermineUsageRelationship(source, target, path, key) ==
    LET key_lower == Lower(key)
        path_lower == Lower(path)
        target_type == target.resource_type
    IN IF Contains(key_lower, "log") \/ Contains(path_lower, "logging") THEN "LOGS_TO"
       ELSE IF Contains(key_lower, "vpc") /\ Contains(target_type, "VPC") THEN "DEPLOYED_IN"
       ELSE IF Contains(key_lower, "subnet") /\ Contains(target_type, "Subnet") THEN "DEPLOYED_IN"
       ELSE IF Contains(key_lower, "securitygroup") \/ Contains(key_lower, "groupid")
            THEN "PROTECTED_BY"
       ELSE IF Contains(key_lower, "role") /\ Contains(target_type, "Role") THEN "ASSUMES"
       ELSE IF Contains(key_lower, "policy") /\ Contains(target_type, "Policy") THEN "HAS_POLICY"
       ELSE IF Contains(key_lower, "volume") /\ Contains(target_type, "Volume") THEN "USES_VOLUME"
       ELSE IF Contains(key_lower, "snapshot") /\ Contains(target_type, "Snapshot")
            THEN "CREATED_FROM"
       ELSE IF Contains(key_lower, "route") \/ Contains(key_lower, "gateway") THEN "ROUTES_THROUGH"
       ELSE IF Contains(key_lower, "loadbalancer") \/ Contains(key_lower, "targetgroup")
            THEN "LOAD_BALANCED_BY"
       ELSE IF Contains(key_lower, "db") /\ LooksLikeDatabase(target_type) THEN "CONNECTS_TO"
       ELSE "USES"

\* one (rel_type, target_resource) pair, with the finder and the property it came from
Candidate(rel_type, target, finder, path, key) ==
    [rel_type |-> rel_type, target |-> target, finder |-> finder, path |-> path, key |-> key]

\* f"{path}.{key}" if path else key
DotPath(path, key) == IF path # "" THEN path \o "." \o key ELSE key

\* f"{path}[{i}]" if path else f"[{i}]"
IndexPath(path, i) == path \o "[" \o ToString(i) \o "]"

\* Neo4jClient._find_arn_references: search_arns, started on the properties with path ""
RECURSIVE SearchArns(_, _, _, _)
SearchArns(obj, path, resource, arn_to_resource) ==
    IF IsDict(obj)
    THEN ConcatAll([i \in 1..Len(obj.d) |->
            LET key == obj.d[i].k
                value == obj.d[i].v
                current_path == DotPath(path, key)
            IN IF IsStr(value) /\ StartsWith(value.s, "arn:aws:")
               THEN (IF value.s \in DOMAIN arn_to_resource
                     THEN <<Candidate(DetermineUsageRelationship(resource,
                                          arn_to_resource[value.s], current_path, key),
                                      arn_to_resource[value.s], "arn", current_path, key)>>
                     ELSE <<>>)
               ELSE IF IsContainer(value)
                    THEN SearchArns(value, current_path, resource, arn_to_resource)
               ELSE <<>>])
    ELSE IF IsList(obj)
    THEN ConcatAll([i \in 1..Len(obj.l) |->
            SearchArns(obj.l[i], IndexPath(path, i - 1), resource, arn_to_resource)])
    ELSE <<>>

\* Neo4jClient._find_id_references: search_ids, started on the properties with path ""
RECURSIVE SearchIds(_, _, _, _)
SearchIds(obj, path, resource, id_to_resources) ==
    IF IsDict(obj)
    THEN ConcatAll([i \in 1..Len(obj.d) |->
            LET key == obj.d[i].k
                value == obj.d[i].v
            IN IF IsStr(value) /\ value.s \in DOMAIN id_to_resources
               THEN LET targets == SelectSeq(id_to_resources[value.s],
                                             LAMBDA target : target.arn # resource.arn)
                    IN [j \in 1..Len(targets) |->
                           Candidate(DetermineUsageRelationship(resource, targets[j], path, key),
                                     targets[j], "id", path, key)]
               ELSE IF IsContainer(value)
                    THEN SearchIds(value, DotPath(path, key), resource, id_to_resources)
               ELSE <<>>])
    ELSE IF IsList(obj)
    THEN ConcatAll([i \in 1..Len(obj.l) |->
            IF IsContainer(obj.l[i])
            THEN SearchIds(obj.l[i], IndexPath(path, i - 1), resource, id_to_resources)
            ELSE <<>>])
    ELSE <<>>

\* for r in index[key] if part in r.resource_type: (rel_type, r)
Typed(index, key, part, rel_type, finder) ==
    IF key \in DOMAIN index
    THEN LET targets == SelectSeq(index[key], LAMBDA r : Contains(r.resource_type, part))
         IN [j \in 1..Len(targets) |-> Candidate(rel_type, targets[j], finder, "", "")]
    ELSE <<>>

\* resource.properties.get(key) when it is a non-empty string, else ""
TopLevelString(resource, key) ==
    LET value == GetOr(resource.properties, key, VNone)
    IN IF IsStr(value) THEN value.s ELSE ""

\* Neo4jClient._find_vpc_relationships
FindVpcRelationships(resource, ix) ==
    LET vpc_id == TopLevelString(resource, "VpcId")
    IN IF vpc_id # "" THEN Typed(ix.id_to_resources, vpc_id, "VPC", "DEPLOYED_IN", "vpc") ELSE <<>>

\* Neo4jClient._find_subnet_relationships
FindSubnetRelationships(resource, ix) ==
    LET subnet_id == TopLevelString(resource, "SubnetId")
    IN IF subnet_id # ""
       THEN Typed(ix.id_to_resources, subnet_id, "Subnet", "DEPLOYED_IN", "subnet") ELSE <<>>

sg_fields == {"SecurityGroups", "SecurityGroupIds", "GroupId"}

\* Neo4jClient._find_security_group_relationships: find_sgs
RECURSIVE FindSgs(_, _)
FindSgs(obj, id_to_resources) ==
    IF IsDict(obj)
    THEN ConcatAll([i \in 1..Len(obj.d) |->
            LET key == obj.d[i].k
                value == obj.d[i].v
            IN IF key \in sg_fields
               THEN (IF IsList(value)
                     THEN ConcatAll([j \in 1..Len(value.l) |->
                              IF IsStr(value.l[j])
                              THEN Typed(id_to_resources, value.l[j].s, "SecurityGroup",
                                         "PROTECTED_BY", "security_group")
                              ELSE <<>>])
                     ELSE IF IsStr(value)
                          THEN Typed(id_to_resources, value.s, "SecurityGroup",
                                     "PROTECTED_BY", "security_group")
                     ELSE <<>>)
               ELSE IF IsContainer(value) THEN FindSgs(value, id_to_resources)
               ELSE <<>>])
    ELSE IF IsList(obj)
    THEN ConcatAll([i \in 1..Len(obj.l) |->
            IF IsContainer(obj.l[i]) THEN FindSgs(obj.l[i], id_to_resources) ELSE <<>>])
    ELSE <<>>

role_fields == {"RoleName", "RoleArn", "IamInstanceProfile"}

\* Neo4jClient._find_role_relationships: find_roles
RECURSIVE FindRoles(_, _)
FindRoles(obj, name_to_resources) ==
    IF IsDict(obj)
    THEN ConcatAll([i \in 1..Len(obj.d) |->
            LET key == obj.d[i].k
                value == obj.d[i].v
            IN IF key \in role_fields
               THEN (IF IsStr(value)
                     THEN LET role_name == IF Contains(value.s, "/")
                                           THEN LastPart(value.s, "/") ELSE value.s
                          IN Typed(name_to_resources, role_name, "Role", "ASSUMES", "role")
                     ELSE <<>>)
               ELSE IF IsContainer(value) THEN FindRoles(value, name_to_resources)
               ELSE <<>>])
    ELSE IF IsList(obj)
    THEN ConcatAll([i \in 1..Len(obj.l) |->
            IF IsContainer(obj.l[i]) THEN FindRoles(obj.l[i], name_to_resources) ELSE <<>>])
    ELSE <<>>

\* the HAS_POLICY pair of one string, if it is an IAM ARN of the index
PolicyHit(value, arn_to_resource) ==
    IF IsStr(value) /\ StartsWith(value.s, "arn:aws:iam") /\ value.s \in DOMAIN arn_to_resource
    THEN <<Candidate("HAS_POLICY", arn_to_resource[value.s], "policy", "", "")>>
    ELSE <<>>

\* Neo4jClient._find_policy_relationships: find_policies
RECURSIVE FindPolicies(_, _)
FindPolicies(obj, arn_to_resource) ==
    IF IsDict(obj)
    THEN ConcatAll([i \in 1..Len(obj.d) |->
            LET key == obj.d[i].k
                value == obj.d[i].v
            IN IF Contains(Lower(key), "policy") \/ Contains(key, "Policy")
               THEN (IF IsStr(value) /\ StartsWith(value.s, "arn:aws:iam")
                     THEN PolicyHit(value, arn_to_resource)
                     ELSE IF IsList(value)
                          THEN ConcatAll([j \in 1..Len(value.l) |->
                                             PolicyHit(value.l[j], arn_to_resource)])
                     ELSE <<>>)
               ELSE IF IsContainer(value) THEN FindPolicies(value, arn_to_resource)
               ELSE <<>>])
    ELSE IF IsList(obj)
    THEN ConcatAll([i \in 1..Len(obj.l) |->
            IF IsContainer(obj.l[i]) THEN FindPolicies(obj.l[i], arn_to_resource) ELSE <<>>])
    ELSE <<>>

\* Neo4jClient._analyze_resource_usage
AnalyzeResourceUsage(resource, ix) ==
    IF ~Truthy(resource.properties) THEN <<>>
    ELSE SearchArns(resource.properties, "", resource, ix.arn_to_resource)
         \o SearchIds(resource.properties, "", resource, ix.id_to_resources)
         \o FindVpcRelationships(resource, ix)
         \o FindSgs(resource.properties, ix.id_to_resources)
         \o FindSubnetRelationships(resource, ix)
         \o FindRoles(resource.properties, ix.name_to_resources)
         \o FindPolicies(resource.properties, ix.arn_to_resource)

\* Neo4jClient._create_usage_relationship
CreateUsageRelationship(g, source_arn, target_arn, source_type, target_type, rel_type) ==
    LET rows == Rows(MatchNodes(g, source_type, ArnIs(source_arn)),
                     MatchNodes(g, target_type, ArnIs(target_arn)))
        g1 == MergeEdges(g, rows, rel_type, <<>>)
    IN Tick(SetEdges(g1, rows, rel_type, <<>>, [created_at |-> Now(g)]))

\* the candidates of every record, in the order of the second loop of
\* Neo4jClient._create_resource_relationships, each tagged with its source record
AllCandidates(rs, ix) ==
    ConcatAll([i \in 1..Len(rs) |->
        IF has_error(rs[i]) THEN <<>>
        ELSE LET found == AnalyzeResourceUsage(rs[i], ix)
             IN [j \in 1..Len(found) |->
                    [source |-> rs[i], rel_type |-> found[j].rel_type,
                     target |-> found[j].target, finder |-> found[j].finder,
                     path |-> found[j].path, key |-> found[j].key]]])

\* Neo4jClient._create_resource_relationships, the edges written for the candidates
WriteCandidates(g, candidates) ==
    ForEach(LAMBDA g0, c :
                CreateUsageRelationship(g0, c.source.arn, c.target.arn,
                                        ExtractNodeType(c.source.resource_type),
                                        ExtractNodeType(c.target.resource_type), c.rel_type),
            g, candidates)

-----------------------------------------------------------------------------
(* The environment of a behaviour: what exists and which calls fail *)

\* the expansion patterns: the parent type each walks and the call sites whose
\* get_service_client it needs
Patterns ==
    <<[pattern |-> "routes", type |-> "AWS::EC2::RouteTable", sites |-> {"routes"}],
      [pattern |-> "rds", type |-> "AWS::RDS::DBCluster", sites |-> {"rds"}],
      [pattern |-> "elasticache", type |-> "AWS::ElastiCache::CacheCluster",
       sites |-> {"elasticache"}],
      [pattern |-> "mq", type |-> "AWS::MQ::Broker", sites |-> {"mq"}],
      [pattern |-> "apigateway", type |-> "AWS::ApiGateway::RestApi",
       sites |-> {"apigateway", "apigatewayv2"}],
      [pattern |-> "tgw", type |-> "AWS::EC2::TransitGateway", sites |-> {"tgw"}],
      [pattern |-> "peering", type |-> "AWS::EC2::VPCPeeringConnection", sites |-> {"peering"}]>>

PatternNamed(name) == Patterns[CHOOSE k \in 1..Len(Patterns) : Patterns[k].pattern = name]

\* sequences without repetition, of length at most n, over the names of a scene
Inventories(scene, n) ==
    {s \in SeqsUpTo({scene[i] : i \in 1..Len(scene)}, n) :
        \A i, j \in 1..Len(s) : i # j => s[i] # s[j]}

\* the call sites and parent identifiers whose failure an inventory can notice
SitesOf(inv) ==
    UNION {Patterns[k].sites : k \in {h \in 1..Len(Patterns) :
              \E i \in 1..Len(inv) : Describe(inv[i], 1).resource_type = Patterns[h].type}}

ParentsOf(inv) ==
    {Describe(inv[i], 1).identifier : i \in {h \in 1..Len(inv) :
        \E k \in 1..Len(Patterns) : Describe(inv[h], 1).resource_type = Patterns[k].type}}

\* the options of the runs of the graph scenes: the graph is updated and never reset, every
\* service runs, no type is excluded
GraphConfig ==
    [update_graph |-> TRUE, reset_graph |-> FALSE, service_filter |-> "",
     exclude_resources |-> {}]

\* main.validate_arguments, the part on the graph options
validate_arguments(args) == ~(args.reset_graph /\ ~args.update_graph)

\* the number of options of a command line that differ from GraphConfig
Options(args) ==
    Cardinality({f \in DOMAIN args : args[f] # GraphConfig[f]})

\* the command lines drawn for an inventory: --update-graph, --reset-graph, --filter and
\* --exclude of main.create_argument_parser, as DiscoveryConfig holds them. The graph
\* scenes run with GraphConfig.
Arguments(inv) ==
    IF inv \notin Inventories(EngineScene, MaxResources) THEN {GraphConfig}
    ELSE [update_graph : BOOLEAN, reset_graph : BOOLEAN,
          service_filter : {"", "lambda", "ec2", "e"},
          exclude_resources : {{}, {"AWS::IAM::Role"}}]

\* the faults of the engine and of the storage driver an inventory can notice: the
\* account upsert raises (setup), the first service's discover_resources raises (service),
\* the first resource-node upsert raises (upsert), the storage connection is lost from the
\* first resource-node upsert on (lost), the user interrupts the enumeration (interrupt)
FaultsOf(inv) ==
    IF inv \notin Inventories(EngineScene, MaxResources) THEN {}
    ELSE {"setup"} \cup (IF inv = <<>> THEN {} ELSE {"service", "upsert", "lost", "interrupt"})

Graph == [nodes |-> nodes, edges |-> edges, clock |-> clock]

\* the counters at the start of a run, and the mark of a run no interrupt has reached
NoStats ==
    [successful_services |-> 0, failed_services |-> 0, resources_with_errors |-> 0,
     skipped_resource_types |-> 0]

NotInterrupted == [raised |-> FALSE, started |-> {}, collected |-> <<>>]

-----------------------------------------------------------------------------
(* The services and BaseAWSService.discover_resource_type *)

\* the service whose type list holds a resource type: general_aws_service takes every
\* type the ec2, s3 and iam services do not list
HandlerOf(resource_type) ==
    IF ServiceOf(resource_type) \in {"ec2", "s3", "iam"} THEN ServiceOf(resource_type)
    ELSE "general"

\* ServiceFactory.get_services_for_discovery: the services of a run that have something to
\* enumerate, in registration order; with a service filter, those whose registered name
\* holds the filter (ServiceRegistry.get_filtered_services)
ServicesOf(inv) ==
    SelectSeq(<<"ec2", "s3", "iam", "general">>,
              LAMBDA s :
                  /\ config.service_filter = "" \/ Contains(Lower(s), Lower(config.service_filter))
                  /\ \E i \in 1..Len(inv) : HandlerOf(Describe(inv[i], 1).resource_type) = s)

\* get_skip_patterns of the ec2, s3 and iam services: the types never listed
skip_patterns ==
    {"AWS::EC2::EIPAssociation", "AWS::EC2::NetworkInterfaceAttachment",
     "AWS::EC2::VolumeAttachment", "AWS::EC2::TransitGatewayMulticastDomainAssociation",
     "AWS::EC2::TransitGatewayMulticastGroupMember",
     "AWS::EC2::TransitGatewayMulticastGroupSource",
     "AWS::EC2::EnclaveCertificateIamRoleAssociation", "AWS::EC2::SecurityGroupEgress",
     "AWS::EC2::SecurityGroupIngress", "AWS::S3::BucketPolicy",
     "AWS::S3::MultiRegionAccessPointPolicy", "AWS::S3::AccessPointAlias",
     "AWS::S3::AccessGrant", "AWS::S3::AccessGrantsInstance", "AWS::S3::AccessGrantsLocation",
     "AWS::IAM::AccessKey", "AWS::IAM::GroupPolicy", "AWS::IAM::RolePolicy",
     "AWS::IAM::UserPolicy"}

skip_error_patterns ==
    {"throttlingexception", "rate exceeded", "too many requests", "required key",
     "required property", "missing or invalid resourcemodel property",
     "property cannot be empty", "autoscalinggroupname is required",
     "certificatearn cannot be empty", "transitgatewaymulticastdomainid", "domainidentifier",
     "projectidentifier", "environmentidentifier", "identitypoolid", "identityprovidername",
     "does not support list action", "unsupportedactionexception", "typenotfoundexception",
     "cannot be found", "operation is not supported", "feature is not available",
     "subscription does not exist", "not registered as a publisher",
     "access grants instance does not exist", "cost category",
     "linked account doesn't have access", "controltower could not complete",
     "awscontroltoweradmin", "failed to list cost categories",
     "error occurred during operation", "handler returned status failed",
     "generalserviceexception"}

\* the error text holds one of the patterns
MatchesSkipPattern(error_msg) ==
    LET error_lower == Lower(error_msg)
    IN \E pattern \in skip_error_patterns : Contains(error_lower, pattern)

\* BaseAWSService.should_skip_resource_type
should_skip_resource_type(resource_type, error_msg) ==
    resource_type \in skip_patterns \/ MatchesSkipPattern(error_msg)

\* the mutant of discover_resource_type: an exception of the list call is swallowed
DiscoverResourceTypeSilent(name, e) ==
    IF should_skip_resource_type(Describe(name, e).resource_type, "")
    THEN [resources |-> <<>>, errors |-> 0, skipped |-> 1]
    ELSE IF Raised(name).class = ""
    THEN [resources |-> <<Describe(name, e)>>, errors |-> 0, skipped |-> 0]
    ELSE [resources |-> <<>>, errors |-> 0, skipped |-> 0]

\* BaseAWSService.discover_resource_type once the list call has answered with a record
\* or raised: the records it returns and what it adds to resources_with_errors and
\* skipped_resource_types
Answered(record, raised) ==
    IF should_skip_resource_type(record.resource_type, "")
    THEN [resources |-> <<>>, errors |-> 0, skipped |-> 1]
    ELSE IF raised.class = ""
    THEN [resources |-> <<record>>, errors |-> 0, skipped |-> 0]
    ELSE IF raised.class = "ClientError"
            /\ should_skip_resource_type(record.resource_type, raised.text)
    THEN [resources |-> <<>>, errors |-> 0, skipped |-> 1]
    ELSE [resources |-> <<ErrorResource(record.resource_type, raised.text)>>, errors |-> 1,
          skipped |-> 0]

\* BaseAWSService.discover_resource_type for one listed type
DiscoverResourceType(name, e) == Answered(Describe(name, e), Raised(name))

\* the listed types a service handles, in the order of the inventory
TypesOf(s, inv) == SelectSeq(inv, LAMBDA name : HandlerOf(Describe(name, 1).resource_type) = s)

\* what a service returns and counts from the outcomes of its types
Tally(each) ==
    [resources |-> ConcatAll([i \in 1..Len(each) |-> each[i].resources]),
     errors |-> Len(SelectSeq(each, LAMBDA x : x.errors = 1)),
     skipped |-> Len(SelectSeq(each, LAMBDA x : x.skipped = 1))]

\* GeneralAWSService._discover_service_resources for one of its types: the call
\* super().discover_resources_by_type names a method no parent class defines, the
\* AttributeError is caught by the except of the loop and an error record is appended,
\* whatever the provider would have listed
GeneralOutcome(name) ==
    [resources |-> <<ResourceInfo(Describe(name, 1).resource_type, "discovery-error", "",
                                  VDict(<<>>), Region,
                                  "'super' object has no attribute 'discover_resources_by_type'")>>,
     errors |-> 1, skipped |-> 0]

\* the outcomes of a service's types, in order. The ec2, s3 and iam services call
\* discover_resource_type. For the general service, as_written tells the runs that take
\* their records from GeneralAWSService as it stands; the other runs take the records of
\* its types as the base enumeration lists them, which is the collection of records the
\* projection is specified on.
Outcomes(s, mine, e, as_written) ==
    [i \in 1..Len(mine) |-> IF s = "general" /\ as_written THEN GeneralOutcome(mine[i])
                            ELSE DiscoverResourceType(mine[i], e)]

\* a service's discover_resources: the outcomes of its types, in order
DiscoverService(s, inv, e) ==
    Tally(Outcomes(s, TypesOf(s, inv), e, inv \in Inventories(EngineScene, MaxResources)))

\* the service whose discover_resources raises when a service fault is drawn
Raises(s) == "service" \in faults /\ s = ServicesOf(inventory)[1]

\* what the main thread and the service leave once a service's work has ended: the
\* records are appended and the counters moved (DiscoveryEngine lines 142-151, 166-175)
Collected(acc, s) ==
    LET result == DiscoverService(s, inventory, epoch)
    IN IF Raises(s)
       THEN [acc EXCEPT !.stats.failed_services = @ + 1]
       ELSE [all |-> acc.all \o result.resources,
             stats |-> [acc.stats EXCEPT !.successful_services = @ + 1,
                                         !.resources_with_errors = @ + result.errors,
                                         !.skipped_resource_types = @ + result.skipped]]

Init ==
    /\ \E scene \in Scenes : inventory \in Inventories(scene, MaxResources)
    /\ clientFails \in SUBSET SitesOf(inventory)
    /\ fetchFails \in SUBSET ParentsOf(inventory)
    /\ max_workers \in IF inventory \in Inventories(EngineScene, MaxResources) THEN {1, 10}
                       ELSE {1}
    /\ faults \in SUBSET FaultsOf(inventory)
    /\ Cardinality(clientFails) + Cardinality(fetchFails) + Cardinality(faults) <= MaxFailures
    /\ config \in {args \in Arguments(inventory) : validate_arguments(args)}
    /\ Options(config) <= MaxOptions
    /\ Options(config) = 0
       \/ (faults = {} /\ clientFails = {} /\ fetchFails = {} /\ max_workers = 1)
    /\ all_resources = <<>>
    /\ engine_account = ""
    /\ resources = <<>>
    /\ account_id = ""
    /\ nodes = <<>>
    /\ edges = <<>>
    /\ clock = 1
    /\ pc = "start"
    /\ run = 1
    /\ epoch = 1
    /\ resources_dict = <<>>
    /\ relationships = <<>>
    /\ indices = EmptyIndices
    /\ writes = <<>>
    /\ expanded = {}
    /\ endOfRun = <<>>
    /\ neo4j_client = config.update_graph
    /\ tasks = <<>>
    /\ interrupted = NotInterrupted
    /\ stats = NoStats
    /\ exported = <<>>
    /\ returned = <<>>
    /\ failed = <<>>

-----------------------------------------------------------------------------
(* DiscoveryEngine.discover_all_resources, step by step *)

\* DiscoveryEngine._get_account_id: the STS answer, or "unknown" when the call fails
GetAccountId ==
    /\ pc = "start"
    /\ engine_account' \in {CurrentAccount, "unknown"}
    /\ pc' = "setup"
    /\ UNCHANGED <<inventory, max_workers, config, faults, neo4j_client, enumVars, outVars, failed, all_resources, resources, account_id, nodes, edges, clock, run,
                   epoch, clientFails, fetchFails, resources_dict, relationships, indices,
                   writes, expanded, endOfRun>>

\* DiscoveryEngine._setup_neo4j_graph with Neo4jClient.create_account_node
SetupNeo4jGraph ==
    /\ pc = "setup"
    /\ account_id' = engine_account
    /\ IF ~neo4j_client
       THEN UNCHANGED <<neo4j_client, nodes, edges, clock>>
       ELSE IF "setup" \in faults
       THEN neo4j_client' = FALSE /\ UNCHANGED <<nodes, edges, clock>>
       ELSE /\ LET g == CreateAccountNode(IF config.reset_graph THEN ResetGraph(Graph)
                                          ELSE Graph,
                                          engine_account, "Account-" \o engine_account)
               IN nodes' = g.nodes /\ edges' = g.edges /\ clock' = g.clock
            /\ UNCHANGED neo4j_client
    /\ pc' = "discover"
    /\ UNCHANGED <<inventory, max_workers, config, faults, enumVars, outVars, failed, all_resources, engine_account, resources, run, epoch, clientFails,
                   fetchFails, resources_dict, relationships, indices, writes, expanded,
                   endOfRun>>

\* DiscoveryEngine._discover_resources_sequential (max_workers = 1): the services one
\* after the other
DiscoverResources ==
    /\ pc = "discover"
    /\ max_workers <= 1
    /\ LET after == ForEach(Collected, [all |-> <<>>, stats |-> stats], ServicesOf(inventory))
       IN all_resources' = after.all /\ stats' = after.stats
    /\ pc' = "export"
    /\ UNCHANGED <<inventory, max_workers, config, faults, neo4j_client, tasks, interrupted, outVars, failed,
                   engine_account, resources, account_id, nodes, edges, clock, run, epoch,
                   clientFails, fetchFails, resources_dict, relationships, indices, writes,
                   expanded, endOfRun>>

\* what an enumeration step leaves alone
EnumerationFrame ==
    UNCHANGED <<inventory, max_workers, config, faults, neo4j_client, outVars, failed, engine_account,
                resources, account_id, nodes, edges, clock, run, epoch, clientFails, fetchFails,
                resources_dict, relationships, indices, writes, expanded, endOfRun>>

\* DiscoveryEngine._discover_resources_parallel: every service is submitted to the pool
SubmitTasks ==
    /\ pc = "discover"
    /\ max_workers > 1
    /\ tasks' = [s \in Range(ServicesOf(inventory)) |-> "pending"]
    /\ pc' = "collect"
    /\ UNCHANGED <<all_resources, interrupted, stats>>
    /\ EnumerationFrame

\* a worker thread, one of max_workers, takes a submitted task; the pool's
\* shutdown(wait=True) lets it do so after the main thread was interrupted as well
StartTask(s) ==
    /\ pc = "collect"
    /\ tasks[s] = "pending"
    /\ Cardinality({x \in DOMAIN tasks : tasks[x] = "running"}) < max_workers
    /\ tasks' = [tasks EXCEPT ![s] = "running"]
    /\ UNCHANGED <<all_resources, interrupted, stats, pc>>
    /\ EnumerationFrame

\* a task ends; unless the main thread was interrupted, its as_completed loop takes the
\* result.  A service counts its own errors and skips whoever waits for it.
FinishTask(s) ==
    /\ pc = "collect"
    /\ tasks[s] = "running"
    /\ tasks' = [tasks EXCEPT ![s] = IF Raises(s) THEN "failed" ELSE "done"]
    /\ LET after == Collected([all |-> all_resources, stats |-> stats], s)
       IN IF interrupted.raised
          THEN /\ all_resources' = all_resources
               /\ stats' = [after.stats EXCEPT
                               !.successful_services = stats.successful_services,
                               !.failed_services = stats.failed_services]
          ELSE all_resources' = after.all /\ stats' = after.stats
    /\ UNCHANGED <<interrupted, pc>>
    /\ EnumerationFrame

\* the user interrupts the run while the main thread waits for the tasks
Interrupt ==
    /\ pc = "collect"
    /\ "interrupt" \in faults
    /\ ~interrupted.raised
    /\ \E s \in DOMAIN tasks : tasks[s] \in {"pending", "running"}
    /\ interrupted' = [raised |-> TRUE,
                       started |-> {s \in DOMAIN tasks : tasks[s] # "pending"},
                       collected |-> all_resources]
    /\ UNCHANGED <<all_resources, tasks, stats, pc>>
    /\ EnumerationFrame

\* the mutant of EnumerationDone: the main thread leaves the pool without waiting
EnumerationDoneEarly ==
    /\ pc = "collect"
    /\ ~interrupted.raised
    /\ pc' = "export"
    /\ UNCHANGED <<all_resources, tasks, interrupted, stats>>
    /\ EnumerationFrame

\* every task has ended and none is left to collect: _update_final_statistics is next
EnumerationDone ==
    /\ pc = "collect"
    /\ ~interrupted.raised
    /\ \A s \in DOMAIN tasks : tasks[s] \in {"done", "failed"}
    /\ pc' = "export"
    /\ UNCHANGED <<all_resources, tasks, interrupted, stats>>
    /\ EnumerationFrame

\* the pool has shut down and the KeyboardInterrupt reaches main (main.py 318-320): the
\* process prints a message and ends with status 1
InterruptExit ==
    /\ pc = "collect"
    /\ interrupted.raised
    /\ \A s \in DOMAIN tasks : tasks[s] \in {"done", "failed"}
    /\ pc' = "done"
    /\ UNCHANGED <<all_resources, tasks, interrupted, stats>>
    /\ EnumerationFrame

\* BaseExporter.filter_resources without a service filter: the records without error
filter_resources(rs) == SelectSeq(rs, LAMBDA r : ~has_error(r))

\* DiscoveryEngine._export_results
ExportResults ==
    /\ pc = "export"
    /\ exported' = Append(exported, filter_resources(all_resources))
    /\ pc' = "update"
    /\ UNCHANGED <<inventory, max_workers, config, faults, neo4j_client, enumVars, returned, failed, all_resources,
                   engine_account, resources, account_id, nodes, edges, clock, run, epoch,
                   clientFails, fetchFails, resources_dict, relationships, indices, writes,
                   expanded, endOfRun>>

\* DiscoveryEngine._update_neo4j_graph and the head of Neo4jClient.add_resources_to_graph
UpdateNeo4jGraph ==
    /\ pc = "update"
    /\ LET valid_resources == SelectSeq(all_resources, is_valid)
       IN IF ~neo4j_client \/ all_resources = <<>> \/ valid_resources = <<>>
          THEN /\ pc' = "finish"
               /\ UNCHANGED <<resources, resources_dict>>
          ELSE /\ resources' = valid_resources
               /\ resources_dict' = BuildResourcesDict(valid_resources, <<>>)
               /\ pc' = "nodes"
    /\ UNCHANGED <<inventory, max_workers, config, faults, neo4j_client, enumVars, outVars, failed, all_resources, engine_account, account_id, nodes, edges, clock,
                   run, epoch, clientFails, fetchFails, relationships, indices, writes,
                   expanded, endOfRun>>

-----------------------------------------------------------------------------
(* Neo4jClient.add_resources_to_graph, phase by phase *)

\* the mutant of ByType: the loop over the types ends after the first type
ByTypeFirst(rs) ==
    LET valid == SelectSeq(rs, LAMBDA r : ~has_error(r) /\ is_valid(r))
    IN SelectSeq(valid, LAMBDA r : r.resource_type = valid[1].resource_type)

\* the order in which resources_by_type hands the records to _add_resources_of_type:
\* types by first appearance, records of a type in list order
ByType(rs) ==
    LET valid == SelectSeq(rs, LAMBDA r : ~has_error(r) /\ is_valid(r))
        first == {i \in 1..Len(valid) :
                     \A j \in 1..(i - 1) : valid[j].resource_type # valid[i].resource_type}
        order == SortedSeq(first)
    IN ConcatAll([k \in 1..Len(order) |->
           SelectSeq(valid, LAMBDA r : r.resource_type = valid[order[k]].resource_type)])

\* one entry of the history of node upserts: the record, the key it was merged on and
\* the stored nodes the MERGE matched or created
WriteOf(g, resource, acct) ==
    LET label == ExtractNodeType(resource.resource_type)
        unique == UniqueKey(resource, acct)
        pattern == (unique.key :> VStr(unique.value))
    IN [resource |-> resource, label |-> label, key |-> unique.key, value |-> unique.value,
        hit |-> MatchNodes(MergeNode(g, label, pattern), label, pattern)]

\* session.run raises for the k-th resource-node upsert of the run
UpsertRaises(k) == "lost" \in faults \/ ("upsert" \in faults /\ k = 1)

\* Neo4jClient._add_resources_of_type over every type; an upsert that raises is logged by
\* _create_resource_node and the loop goes on
AddResourcesOfType ==
    /\ pc = "nodes"
    /\ LET order == ByType(resources)
           after == ForEach(LAMBDA acc, resource :
                        IF UpsertRaises(Len(acc.log) + Len(acc.failed) + 1)
                        THEN [acc EXCEPT !.failed = Append(@, [kind |-> "node",
                                                               what |-> resource])]
                        ELSE [acc EXCEPT
                                 !.g = CreateResourceNode(acc.g, resource, account_id),
                                 !.log = Append(@, WriteOf(acc.g, resource, account_id))],
                        [g |-> Graph, log |-> writes, failed |-> failed], order)
       IN /\ nodes' = after.g.nodes /\ edges' = after.g.edges /\ clock' = after.g.clock
          /\ writes' = after.log
          /\ failed' = after.failed
    /\ pc' = "routes"
    /\ UNCHANGED <<inventory, max_workers, config, faults, neo4j_client, enumVars, outVars, all_resources, engine_account, resources, account_id, run, epoch,
                   clientFails, fetchFails, resources_dict, relationships, indices, expanded,
                   endOfRun>>

\* the parents a pattern walked to the end: its clients were created and the detail call
\* for the parent returned
Completed(name) ==
    LET p == PatternNamed(name)
        parents == OfType(resources_dict, p.type)
    IN IF p.sites \cap clientFails # {} THEN {}
       ELSE {<<name, parents[i].info.identifier>> : i \in {h \in 1..Len(parents) :
                /\ parents[h].info.identifier # ""
                /\ FetchReturns(name, parents[h].info.identifier, fetchFails)}}

\* one expansion phase: the graph it leaves, the pattern it is, the phase after it; with
\* the storage connection lost every statement raises into the handler of its parent
Phase(here, g, name, next) ==
    /\ pc = here
    /\ IF "lost" \in faults
       THEN UNCHANGED <<nodes, edges, clock, expanded>>
       ELSE /\ nodes' = g.nodes /\ edges' = g.edges /\ clock' = g.clock
            /\ expanded' = expanded \cup Completed(name)
    /\ pc' = next
    /\ UNCHANGED <<inventory, max_workers, config, faults, neo4j_client, enumVars, outVars, failed, all_resources, engine_account, resources, account_id, run, epoch,
                   clientFails, fetchFails, resources_dict, relationships, indices, writes,
                   endOfRun>>

RouteRulesPhase ==
    Phase("routes",
          CreateRouteRules(Graph, resources_dict, account_id, epoch, clientFails, fetchFails),
          "routes", "rds")

RdsPhase ==
    Phase("rds",
          CreateRdsComponents(Graph, resources_dict, account_id, epoch, clientFails, fetchFails),
          "rds", "elasticache")

ElastiCachePhase ==
    Phase("elasticache",
          CreateElastiCacheComponents(Graph, resources_dict, account_id, epoch, clientFails,
                                      fetchFails),
          "elasticache", "mq")

MqPhase ==
    Phase("mq",
          CreateMqComponents(Graph, resources_dict, account_id, epoch, clientFails, fetchFails),
          "mq", "apigateway")

ApiGatewayPhase ==
    Phase("apigateway",
          CreateApiGatewayComponents(Graph, resources_dict, account_id, epoch, clientFails,
                                     fetchFails),
          "apigateway", "tgw")

TransitGatewayPhase ==
    Phase("tgw",
          CreateTransitGatewayComponents(Graph, resources_dict, account_id, epoch, clientFails,
                                         fetchFails),
          "tgw", "peering")

VpcPeeringPhase ==
    Phase("peering",
          CreateVpcPeeringComponents(Graph, resources_dict, account_id, epoch, clientFails,
                                     fetchFails),
          "peering", "relationships")

\* Neo4jClient._create_resource_relationships; a candidate whose statement raises is
\* logged and the loop goes on
CreateResourceRelationships ==
    /\ pc = "relationships"
    /\ LET ix == BuildIndices(resources, EmptyIndices)
           candidates == AllCandidates(resources, ix)
           g == IF "lost" \in faults THEN Graph ELSE WriteCandidates(Graph, candidates)
       IN /\ indices' = ix
          /\ relationships' = candidates
          /\ nodes' = g.nodes /\ edges' = g.edges /\ clock' = g.clock
          /\ failed' = IF "lost" \in faults
                        THEN failed \o [i \in 1..Len(candidates) |->
                                           [kind |-> "edge", what |-> candidates[i]]]
                        ELSE failed
    /\ pc' = "log"
    /\ UNCHANGED <<inventory, max_workers, config, faults, neo4j_client, enumVars, outVars, all_resources, engine_account, resources, account_id, run, epoch,
                   clientFails, fetchFails, resources_dict, writes, expanded, endOfRun>>

\* Neo4jClient._log_cross_account_connections: two read-only queries
LogCrossAccountConnections ==
    /\ pc = "log"
    /\ pc' = "finish"
    /\ UNCHANGED <<inventory, max_workers, config, faults, neo4j_client, enumVars, outVars, failed, all_resources, engine_account, resources, account_id, nodes, edges,
                   clock, run, epoch, clientFails, fetchFails, resources_dict, relationships,
                   indices, writes, expanded, endOfRun>>

\* the tail of DiscoveryEngine.discover_all_resources: the run returns
ReturnResources ==
    /\ pc = "finish"
    /\ endOfRun' = Append(endOfRun, [account |-> engine_account, epoch |-> epoch,
                                     nodes |-> Len(nodes), edges |-> Len(edges)])
    /\ returned' = Append(returned, all_resources)
    /\ pc' = "done"
    /\ UNCHANGED <<inventory, max_workers, config, faults, neo4j_client, enumVars, exported, failed, all_resources,
                   engine_account, resources, account_id, nodes, edges, clock, run, epoch,
                   clientFails, fetchFails, resources_dict, relationships, indices, writes,
                   expanded>>

\* the tool is started again, on the same or on a changed provider state; a behaviour
\* with a fault of the engine or of the driver is followed for MaxFaultyRuns runs
NextRun ==
    /\ pc = "done"
    /\ run < MaxRuns
    /\ (faults = {} /\ config.service_filter = "" /\ config.exclude_resources = {}
            /\ config.update_graph)
       \/ run < MaxFaultyRuns
    /\ run' = run + 1
    /\ epoch' \in {epoch, epoch + 1}
    /\ pc' = "start"
    /\ all_resources' = <<>>
    /\ engine_account' = ""
    /\ resources' = <<>>
    /\ account_id' = ""
    /\ resources_dict' = <<>>
    /\ relationships' = <<>>
    /\ indices' = EmptyIndices
    /\ writes' = <<>>
    /\ expanded' = {}
    /\ neo4j_client' = config.update_graph
    /\ tasks' = <<>>
    /\ interrupted' = NotInterrupted
    /\ stats' = NoStats
    /\ exported' = <<>>
    /\ returned' = <<>>
    /\ failed' = <<>>
    /\ UNCHANGED <<inventory, max_workers, config, faults, nodes, edges, clock, clientFails, fetchFails, endOfRun>>

Next ==
    \/ GetAccountId
    \/ SetupNeo4jGraph
    \/ DiscoverResources
    \/ SubmitTasks
    \/ \E s \in DOMAIN tasks : StartTask(s)
    \/ \E s \in DOMAIN tasks : FinishTask(s)
    \/ Interrupt
    \/ EnumerationDone
    \/ InterruptExit
    \/ ExportResults
    \/ UpdateNeo4jGraph
    \/ AddResourcesOfType
    \/ RouteRulesPhase
    \/ RdsPhase
    \/ ElastiCachePhase
    \/ MqPhase
    \/ ApiGatewayPhase
    \/ TransitGatewayPhase
    \/ VpcPeeringPhase
    \/ CreateResourceRelationships
    \/ LogCrossAccountConnections
    \/ ReturnResources
    \/ NextRun

Spec == Init /\ [][Next]_vars

-----------------------------------------------------------------------------
(* The classification table of the design document, section 4.2: thirteen    *)
(* rules, the first that matches wins.  direct says that the reference was   *)
(* resolved by a direct global-reference (ARN) match.                        *)

Classify(key, path, target_type, direct) ==
    LET k == Lower(key)
    IN IF Contains(k, "log") \/ Contains(Lower(path), "logging") THEN "LOGS_TO"
       ELSE IF Contains(k, "vpc") /\ Contains(target_type, "VPC") THEN "DEPLOYED_IN"
       ELSE IF Contains(k, "subnet") /\ Contains(target_type, "Subnet") THEN "DEPLOYED_IN"
       ELSE IF Contains(k, "securitygroup") \/ Contains(k, "groupid") THEN "PROTECTED_BY"
       ELSE IF Contains(k, "role") /\ Contains(target_type, "Role") THEN "ASSUMES"
       ELSE IF Contains(k, "policy") /\ Contains(target_type, "Policy") THEN "HAS_POLICY"
       ELSE IF Contains(k, "volume") /\ Contains(target_type, "Volume") THEN "USES_VOLUME"
       ELSE IF Contains(k, "snapshot") /\ Contains(target_type, "Snapshot") THEN "CREATED_FROM"
       ELSE IF Contains(k, "route") \/ Contains(k, "gateway") THEN "ROUTES_THROUGH"
       ELSE IF Contains(k, "loadbalancer") \/ Contains(k, "targetgroup") THEN "LOAD_BALANCED_BY"
       ELSE IF Contains(k, "db") /\ LooksLikeDatabase(target_type) THEN "CONNECTS_TO"
       ELSE IF direct THEN "REFERENCES"
       ELSE "USES"

-----------------------------------------------------------------------------
(* Properties *)


\* the run has passed the expansion phases / the inference phase
AfterExpansion == pc \in {"relationships", "log", "finish", "done"} /\ resources # <<>>
AfterInference == pc \in {"log", "finish", "done"} /\ resources # <<>>

\* every string that occurs as a value in a property tree, list elements included
RECURSIVE StringValues(_)
StringValues(v) ==
    IF IsStr(v) THEN {v.s}
    ELSE IF IsDict(v) THEN UNION {StringValues(v.d[i].v) : i \in 1..Len(v.d)}
    ELSE IF IsList(v) THEN UNION {StringValues(v.l[i]) : i \in 1..Len(v.l)}
    ELSE {}

\* the string resolves to the record through one of the three indices
Resolves(value, a, ix) ==
    \/ value \in DOMAIN ix.arn_to_resource /\ ix.arn_to_resource[value] = a
    \/ value \in DOMAIN ix.id_to_resources /\ a \in Range(ix.id_to_resources[value])
    \/ value \in DOMAIN ix.name_to_resources /\ a \in Range(ix.name_to_resources[value])

\* the edges of one type, and those among them that belong to one connection
EdgesOfType(type) == {i \in 1..Len(edges) : edges[i].type = type}

PeeringEdges(pcx_id) ==
    {i \in EdgesOfType("CONNECTED_VIA_VPC_PEERING") :
        edges[i].props.peering_connection_id = VStr(pcx_id)}

AccountNode(acct) == MatchNodes(Graph, "Account", [id |-> VStr(acct)])

\* C1: two successive runs over the identical snapshot, detail answers and account
\* leave the node count and the edge count of the first of them.
C1_SecondRunAddsNothing ==
    \A k \in 1..(Len(endOfRun) - 1) :
        (endOfRun[k].epoch = endOfRun[k + 1].epoch /\ endOfRun[k].account = endOfRun[k + 1].account)
            => /\ endOfRun[k + 1].nodes = endOfRun[k].nodes
               /\ endOfRun[k + 1].edges = endOfRun[k].edges

\* C2: inference never emits a candidate whose target is its own source record, and the
\* graph never holds an edge from a node to itself.
C2_NoSelfReference ==
    /\ \A i \in 1..Len(relationships) : relationships[i].target # relationships[i].source
    /\ \A i \in 1..Len(edges) : edges[i].src # edges[i].dst

\* C3: for distinct records A and B of a run, if A's ARN occurs as a string value anywhere
\* in B's properties then inference yields a candidate B -> A, and if no string value of B
\* resolves to A through an index then inference yields no candidate B -> A.
C3_ReferenceFoundIffResolvable ==
    AfterInference =>
        \A i, j \in 1..Len(resources) :
            LET a == resources[i]
                b == resources[j]
                found == \E k \in 1..Len(relationships) :
                             relationships[k].source = b /\ relationships[k].target = a
            IN (i # j /\ a # b) =>
                  /\ (a.arn # "" /\ a.arn \in StringValues(b.properties)) => found
                  /\ (\A value \in StringValues(b.properties) : ~Resolves(value, a, indices))
                         => ~found

\* C4: every classified candidate carries the kind of the lowest-numbered matching rule
\* of the thirteen-rule table.
C4_LowestRuleWins ==
    \A i \in 1..Len(relationships) :
        LET c == relationships[i]
        IN c.finder \in {"arn", "id"} =>
               c.rel_type = Classify(c.key, c.path, c.target.resource_type, c.finder = "arn")

\* C5: after detection, each expanded peering connection has as many
\* CONNECTED_VIA_VPC_PEERING edges as it has sides owned by another account, each from the
\* current account to such an owner, and at most one per owner.
C5_OneEdgePerForeignSide ==
    AfterExpansion =>
        \A x \in expanded :
            x[1] = "peering" =>
                LET current == ClientAccountId(account_id)
                    pcxs == GetOr(DescribeVpcPeeringConnections(x[2], epoch),
                                  "VpcPeeringConnections", VList(<<>>)).l
                    targets == ConcatAll([i \in 1..Len(pcxs) |->
                                             CrossAccountTargets(pcxs[i], current)])
                IN /\ Cardinality(PeeringEdges(x[2])) = Len(targets)
                   /\ \A i \in PeeringEdges(x[2]) :
                          /\ edges[i].src \in AccountNode(current)
                          /\ \E owner \in Range(targets) : edges[i].dst \in AccountNode(owner)
                   /\ \A i, j \in PeeringEdges(x[2]) : edges[i].dst = edges[j].dst => i = j

\* C6: a parent whose own pattern's client was created and whose own detail call returned
\* is expanded, whatever failed for other patterns and other parents.
C6_FailuresStayLocal ==
    (AfterExpansion /\ "lost" \notin faults) =>
        \A k \in 1..Len(Patterns) :
            LET parents == OfType(resources_dict, Patterns[k].type)
            IN \A i \in 1..Len(parents) :
                   (/\ Patterns[k].pattern \notin clientFails
                    /\ FetchReturns(Patterns[k].pattern, parents[i].info.identifier, fetchFails))
                       => <<Patterns[k].pattern, parents[i].info.identifier>> \in expanded

\* the region segment of a composite key: the record's region, or "global" for a record
\* of a global service
RegionPart(r) == IF IsGlobalService(r.service) THEN "global" ELSE r.region

HasArn(r) == r.arn # "" /\ NonBlank(r.arn)

\* the key property of an upsert is not also a raw property of the record
KeyNotARawProperty(w) == w.key \notin DOMAIN FlattenProperties(w.resource.properties)

\* the two upserts agree on what the merge is keyed on
SameArnOrSameComposite(w1, w2) ==
    \/ HasArn(w1.resource) /\ HasArn(w2.resource) /\ w1.resource.arn = w2.resource.arn
    \/ /\ ~HasArn(w1.resource) /\ ~HasArn(w2.resource)
       /\ w1.resource.identifier = w2.resource.identifier
       /\ RegionPart(w1.resource) = RegionPart(w2.resource)
       /\ w1.resource.resource_type = w2.resource.resource_type

NodeKey(n) ==
    IF n.label = "Account" THEN <<"id", n.props.id>>
    ELSE IF "composite_id" \in DOMAIN n.props THEN <<"composite_id", n.props.composite_id>>
    ELSE <<"arn", n.props.arn>>

\* what a cross-account edge is keyed on besides its ends and its type
ConnectionOf(e) ==
    IF "peering_connection_id" \in DOMAIN e.props THEN e.props.peering_connection_id
    ELSE IF "attachment_id" \in DOMAIN e.props THEN e.props.attachment_id
    ELSE VNone

\* C8: the graph never holds two nodes of one label with one key, nor two edges of one
\* type between the same two nodes for the same connection.
C8_OneEntityPerKey ==
    /\ \A i, j \in 1..Len(nodes) :
           (nodes[i].label = nodes[j].label /\ NodeKey(nodes[i]) = NodeKey(nodes[j])) => i = j
    /\ \A i, j \in 1..Len(edges) :
           (/\ edges[i].src = edges[j].src /\ edges[i].dst = edges[j].dst
            /\ edges[i].type = edges[j].type
            /\ ConnectionOf(edges[i]) = ConnectionOf(edges[j])) => i = j

\* the stored node stands for the record
Represents(n, r) ==
    /\ n.label = ExtractNodeType(r.resource_type)
    /\ "identifier" \in DOMAIN n.props /\ n.props.identifier = VStr(r.identifier)
    /\ "aws_resource_type" \in DOMAIN n.props
    /\ n.props.aws_resource_type = VStr(r.resource_type)

ErrorRecords == {r \in Range(all_resources) : r.error # ""}

\* C9: a record whose error field is set is not upserted, has no node (so no edge starts
\* or ends at it), is in none of the three indices, is neither source nor target of a
\* candidate, and is not handed to expansion.
C9_ErrorRecordsStayOut ==
    \A r \in ErrorRecords :
        /\ r \notin Range(resources)
        /\ \A i \in 1..Len(writes) : writes[i].resource # r
        /\ \A i \in 1..Len(nodes) : ~Represents(nodes[i], r)
        /\ \A k \in DOMAIN indices.arn_to_resource : indices.arn_to_resource[k] # r
        /\ \A k \in DOMAIN indices.id_to_resources : r \notin Range(indices.id_to_resources[k])
        /\ \A k \in DOMAIN indices.name_to_resources : r \notin Range(indices.name_to_resources[k])
        /\ \A i \in 1..Len(relationships) :
               relationships[i].source # r /\ relationships[i].target # r
        /\ \A i \in 1..Len(resources_dict) :
               ~(/\ resources_dict[i].info.resource_type = r.resource_type
                 /\ resources_dict[i].info.identifier = r.identifier)
        /\ \A x \in expanded : x[2] # r.identifier

\* a run that saw an error record beside a valid one has written nodes, expanded a parent
\* and built its indices
C9_Witness ==
    /\ pc = "done"
    /\ ErrorRecords # {}
    /\ writes # <<>>
    /\ expanded # {}
    /\ DOMAIN indices.id_to_resources # {}

\* C10: at the end of a first run every node that is not an account has exactly one
\* incoming OWNS edge, and it comes from the node of the current account.
C10_EveryNodeOwnedOnce ==
    (pc = "done" /\ run = 1) =>
        \A n \in 1..Len(nodes) :
            nodes[n].label # "Account" =>
                LET owning == {i \in EdgesOfType("OWNS") : edges[i].dst = n}
                IN /\ Cardinality(owning) = 1
                   /\ \A i \in owning : edges[i].src \in AccountNode(account_id)

\* C11: the property map of every resource node upsert, and every node the upsert hit,
\* has the key region exactly when the record's service is not an account-global one.
C11_RegionIffRegional ==
    \A i \in 1..Len(writes) :
        LET w == writes[i]
            regional == ~IsGlobalService(w.resource.service)
        IN /\ ("region" \in DOMAIN NodeProps(w.resource, account_id)) <=> regional
           /\ \A n \in w.hit : ("region" \in DOMAIN nodes[n].props) <=> regional

\* the edges between Account nodes that cross-account detection writes
CrossAccountEdges ==
    EdgesOfType("CONNECTED_VIA_TRANSIT_GATEWAY") \cup EdgesOfType("CONNECTED_VIA_VPC_PEERING")

\* the edges that stand for a candidate of relationship inference
InferredEdges ==
    {i \in 1..Len(edges) :
        \E k \in 1..Len(relationships) :
            /\ edges[i].type = relationships[k].rel_type
            /\ Represents(nodes[edges[i].src], relationships[k].source)
            /\ Represents(nodes[edges[i].dst], relationships[k].target)}

\* the nodes of plain resources and the nodes of synthesized sub-resources
ResourceNodes == {n \in 1..Len(nodes) : "aws_resource_type" \in DOMAIN nodes[n].props}

SubResourceNodes == {n \in 1..Len(nodes) : nodes[n].label # "Account"} \ ResourceNodes

\* C12: in a first run the Account node is written first, every resource node before
\* every sub-resource node, and every inferred-relationship edge before every
\* Account-to-Account cross-account edge.
C12_PhasesInOrder ==
    run = 1 =>
        /\ nodes # <<>> => nodes[1].label = "Account"
        /\ \A m \in ResourceNodes : \A n \in SubResourceNodes : m < n
        /\ \A i \in InferredEdges : \A j \in CrossAccountEdges : i < j

\* the node upsert of a record of this run was attempted: it was written or it raised
Attempted(r) ==
    \/ \E i \in 1..Len(writes) : writes[i].resource = r
    \/ \E k \in 1..Len(failed) : failed[k].kind = "node" /\ failed[k].what = r

\* the records of this run whose node upsert raised, so that their node is missing
Missing == {failed[k].what : k \in {h \in 1..Len(failed) : failed[h].kind = "node"}}

\* once the graph of a first run holds a sub-resource node or an edge other than an
\* ownership edge, the node upsert of every valid record has been attempted
NodesWereAttempted ==
    (run = 1 /\ (SubResourceNodes # {} \/ \E i \in 1..Len(edges) : edges[i].type # "OWNS"))
        => \A r \in Range(resources) : Attempted(r)

\* no stored node stands for a record whose node upsert raised
MissingStaysMissing == \A r \in Missing : ~\E n \in 1..Len(nodes) : Represents(nodes[n], r)

\* the positions of a projection, in the order of add_resources_to_graph, and the end
ProjectionPhases ==
    <<"nodes", "routes", "rds", "elasticache", "mq", "apigateway", "tgw", "peering",
      "relationships", "log", "finish", "done">>

\* the step taken from a position of the projection leads to the position after it
StepsOn ==
    \A i \in 1..(Len(ProjectionPhases) - 1) :
        pc = ProjectionPhases[i] => pc' = ProjectionPhases[i + 1]

TasksOpen == \E s \in DOMAIN tasks : tasks[s] \in {"pending", "running"}

\* the run is inside add_resources_to_graph
Projecting == \E i \in 1..(Len(ProjectionPhases) - 2) : pc = ProjectionPhases[i]

\* C14: no step taken while a service task is pending or running, or after an interrupt of
\* the enumeration, changes the stored nodes or edges; the projection is entered only
\* with every task ended and no interrupt, and it leaves the collected records alone.
C14_ProjectionAfterEnumeration ==
    /\ [](Projecting => (~TasksOpen /\ ~interrupted.raised))
    /\ [][/\ (TasksOpen \/ interrupted.raised) => (nodes' = nodes /\ edges' = edges)
          /\ Projecting => all_resources' = all_resources]_vars

\* a finished run that enumerated two services on the worker pool and wrote resource nodes
C14_Witness ==
    /\ pc = "done"
    /\ Cardinality(DOMAIN tasks) = 2
    /\ \A s \in DOMAIN tasks : tasks[s] = "done"
    /\ Len(writes) = 2
    /\ \A i \in 1..Len(writes) : writes[i].hit # {}

\* C15: once the enumeration was interrupted, no task is running or ended that had not
\* been started before the interrupt, and the finished run has exported and returned the
\* records collected before the interrupt.
C15_InterruptKeepsCompleted ==
    interrupted.raised =>
        /\ \A s \in DOMAIN tasks : tasks[s] # "pending" => s \in interrupted.started
        /\ pc = "done" => /\ returned = <<interrupted.collected>>
                          /\ exported = <<filter_resources(interrupted.collected)>>

\* the names of the inventory whose list call raises, split by whether the text of the
\* exception holds a skip pattern
RaisingNames == {inventory[i] : i \in {h \in 1..Len(inventory) : Raised(inventory[h]).class # ""}}
SkipNames == {name \in RaisingNames : MatchesSkipPattern(Raised(name).text)}

\* C16: when the enumeration of a run without a failed service is over, no error record
\* stands for a type whose exception matched a skip pattern, whatever its class; the error
\* count holds the other raising types only, and no service counts as failed.
C16_SkipLeavesNoTrace ==
    (pc = "export" /\ "service" \notin faults) =>
        /\ \A name \in SkipNames :
               ~\E r \in Range(all_resources) :
                    r.resource_type = Describe(name, 1).resource_type /\ has_error(r)
        /\ stats.resources_with_errors = Cardinality(RaisingNames \ SkipNames)
        /\ stats.failed_services = 0

\* every service of the run was run and counted as successful or failed, and every type
\* of such a service that did not fail as a whole left its record, or an error record, or
\* was one the service skips
Accounted ==
    /\ stats.successful_services + stats.failed_services = Len(ServicesOf(inventory))
    /\ stats.failed_services = Cardinality({s \in Range(ServicesOf(inventory)) : Raises(s)})
    /\ \A i \in 1..Len(inventory) :
           LET name == inventory[i]
               resource_type == Describe(name, 1).resource_type
           IN HandlerOf(resource_type) \notin Range(ServicesOf(inventory))
              \/ Raises(HandlerOf(resource_type))
              \/ resource_type \in skip_patterns
              \/ (Raised(name).class = "" /\ Describe(name, epoch) \in Range(all_resources))
              \/ (Raised(name).class # "" /\ MatchesSkipPattern(Raised(name).text))
              \/ \E r \in Range(all_resources) :
                     r.resource_type = resource_type /\ has_error(r)
    /\ stats.resources_with_errors = Len(SelectSeq(all_resources, has_error))

\* the step taken from a position of the run after the up-front part leads on, towards
\* the export and the return
RunStepsOn ==
    /\ pc = "discover" => pc' \in {"collect", "export"}
    /\ pc = "collect" => pc' \in {"collect", "export"}
    /\ pc = "export" => pc' = "update" /\ exported' = <<filter_resources(all_resources)>>
    /\ pc = "update" => pc' \in {"nodes", "finish"}
    /\ StepsOn
    /\ pc = "finish" => returned' = <<all_resources>>

\* C17: in a run no user interrupts, every step after the up-front part leads on to the
\* export and to the return whatever failed; when the enumeration is over every service
\* and type is accounted for (records, error records, failure counts); the finished run
\* has exported the records without error and returned all of them.
C17_RunExportsAndReturns ==
    /\ []("interrupt" \notin faults =>
            /\ pc = "export" => Accounted
            /\ pc = "done" => /\ exported = <<filter_resources(all_resources)>>
                              /\ returned = <<all_resources>>)
    /\ [][ "interrupt" \notin faults => RunStepsOn ]_vars

\* a finished run in which one service failed as a whole and the records of the other
\* were exported and returned
C17_Witness ==
    /\ pc = "done"
    /\ stats.failed_services = 1
    /\ stats.successful_services = 1
    /\ returned = <<all_resources>> /\ all_resources # <<>>
    /\ exported = <<filter_resources(all_resources)>> /\ exported[1] # <<>>

\* the account-identity lookup of the run failed, or the storage could not be set up
Unresolved == engine_account = "unknown" \/ ~neo4j_client

\* C18: a run whose account-identity lookup failed or whose storage could not be set up
\* starts no enumeration (no task, no collected record, no counted service) and writes
\* no resource node.
C18_AbortsUpFront ==
    Unresolved => /\ tasks = <<>> /\ all_resources = <<>> /\ stats = NoStats
                  /\ writes = <<>>

\* C19: after the node phase of a run in which one node upsert raised, every other valid
\* record was upserted; in a run that lost the storage connection no upsert is attempted
\* after the one that met the loss.
C19_ContinueOrAbort ==
    /\ ("upsert" \in faults /\ Projecting /\ pc # "nodes")
           => Len(failed) = 1 /\ Len(writes) = Len(ByType(resources)) - 1
    /\ "lost" \in faults => Len(failed) <= 1

\* C20: the stored route rules of one route table and one position carry one and the same
\* synthesized arn, whichever run wrote them and whatever its account-identity lookup
\* answered.
C20_StableSubResourceKey ==
    \A n, m \in 1..Len(nodes) :
        (/\ nodes[n].label = "RouteRule" /\ nodes[m].label = "RouteRule"
         /\ nodes[n].props.route_id = nodes[m].props.route_id)
            => nodes[n].props.arn = nodes[m].props.arn

\* C29: when the enumeration of a run without a failed service is over, every type of the
\* general service whose list call returns has left its listed record and no error record.
C29_GeneralServiceDelegates ==
    (pc = "export" /\ "service" \notin faults) =>
        \A i \in 1..Len(inventory) :
            LET name == inventory[i]
                resource_type == Describe(name, 1).resource_type
            IN (/\ HandlerOf(resource_type) = "general"
                /\ Raised(name).class = ""
                /\ resource_type \notin skip_patterns)
                   => /\ Describe(name, epoch) \in Range(all_resources)
                      /\ ~\E r \in Range(all_resources) :
                             r.resource_type = resource_type /\ has_error(r)

\* a step keeps every stored node and every stored edge (their properties may be set anew)
KeepsGraph ==
    /\ Len(nodes') >= Len(nodes)
    /\ \A i \in 1..Len(nodes) :
           nodes'[i].label = nodes[i].label /\ NodeKey(nodes'[i]) = NodeKey(nodes[i])
    /\ Len(edges') >= Len(edges)
    /\ \A i \in 1..Len(edges) :
           /\ edges'[i].src = edges[i].src /\ edges'[i].dst = edges[i].dst
           /\ edges'[i].type = edges[i].type

\* C21: a run is reset only together with update-graph; a step that removes a stored node
\* or edge is the setup step of a run whose reset flag is set, and that step leaves the
\* Account node of the run and nothing else, so a run without the flag removes nothing,
\* whatever the current snapshot holds.
C21_DeletedOnlyByReset ==
    /\ [](config.reset_graph => config.update_graph)
    /\ [][/\ ~KeepsGraph => (pc = "setup" /\ config.reset_graph /\ neo4j_client)
          /\ (pc = "setup" /\ config.reset_graph /\ neo4j_client')
                => /\ Len(nodes') = 1 /\ nodes'[1].label = "Account"
                   /\ nodes'[1].props.id = VStr(engine_account)
                   /\ edges' = <<>>]_vars

\* the second run of a history with the reset flag has emptied the graph the first run
\* left and made its Account node
C21_Witness ==
    /\ run = 2 /\ pc = "discover" /\ config.reset_graph
    /\ endOfRun[1].nodes > 1
    /\ Len(nodes) = 1 /\ edges = <<>>

\* the second run of a history without the reset flag has ended and the graph still holds
\* a node the run did not write: the route rule of the first run, whose key held the
\* account the first run resolved
C21_StaleKept ==
    /\ run = 2 /\ pc = "done" /\ ~config.reset_graph
    /\ engine_account = "unknown"
    /\ \E i, k \in 1..Len(nodes) :
           /\ nodes[i].label = "RouteRule" /\ nodes[k].label = "RouteRule"
           /\ nodes[i].props.route_id = nodes[k].props.route_id
           /\ nodes[i].props.arn # nodes[k].props.arn

\* C24: no record of an excluded resource type, valid or error-tagged, is collected,
\* exported or returned by a run, and no node is upserted for one.
C24_ExcludedNeverListed ==
    \A t \in config.exclude_resources :
        /\ \A r \in Range(all_resources) : r.resource_type # t
        /\ \A i \in 1..Len(exported) : \A r \in Range(exported[i]) : r.resource_type # t
        /\ \A i \in 1..Len(returned) : \A r \in Range(returned[i]) : r.resource_type # t
        /\ \A i \in 1..Len(writes) : writes[i].resource.resource_type # t

\* C25: when the enumeration of a run with a service filter and without a failed service
\* is over, a type whose list call returns has left a record exactly if the name of its
\* AWS service holds the filter, case-insensitively.
C25_FilterSelectsTypes ==
    (pc = "export" /\ config.service_filter # "" /\ "service" \notin faults) =>
        \A i \in 1..Len(inventory) :
            LET name == inventory[i]
                resource_type == Describe(name, 1).resource_type
            IN (Raised(name).class = "" /\ resource_type \notin skip_patterns)
                   => (Contains(Lower(ServiceOf(resource_type)), Lower(config.service_filter))
                          <=> \E r \in Range(all_resources) : r.resource_type = resource_type)

\* C22: a candidate found by a direct ARN match whose key, path and target type trigger
\* none of the rules 1 to 11 has the kind REFERENCES, and a classified candidate has the
\* kind USES only if it was not found by a direct ARN match and triggers none of those
\* rules.
C22_DirectMatchIsReferences ==
    \A i \in 1..Len(relationships) :
        LET c == relationships[i]
            none == Classify(c.key, c.path, c.target.resource_type, FALSE) = "USES"
        IN c.finder \in {"arn", "id"} =>
              /\ (c.finder = "arn" /\ none) => c.rel_type = "REFERENCES"
              /\ c.rel_type = "USES" => (c.finder = "id" /\ none)

\* C23: flattening the properties of a record keeps each top-level list of scalars as
\* that list, turns each top-level list that holds a non-scalar into a string, and files
\* each entry of a nested map under the joined key; the node stored for the record holds
\* the list of scalars under its key.
C23_FlatteningKeepsScalarLists ==
    AfterInference =>
        \A i \in 1..Len(resources) :
            LET r == resources[i]
                flat == FlattenProperties(r.properties)
            IN \A j \in 1..Len(r.properties.d) :
                   LET k == r.properties.d[j].k
                       v == r.properties.d[j].v
                       scalars == IsList(v) /\ \A x \in Range(v.l) : ~IsContainer(x)
                   IN /\ scalars =>
                             /\ k \in DOMAIN flat /\ flat[k] = v
                             /\ \A n \in 1..Len(nodes) :
                                    ("arn" \in DOMAIN nodes[n].props /\ r.arn # ""
                                         /\ nodes[n].props.arn = VStr(r.arn))
                                        => (k \in DOMAIN nodes[n].props /\ nodes[n].props[k] = v)
                      /\ (IsList(v) /\ ~scalars) => (k \in DOMAIN flat /\ IsStr(flat[k]))
                      /\ IsDict(v) =>
                             \A m \in 1..Len(v.d) :
                                 IsContainer(v.d[m].v) \/ (k \o "_" \o v.d[m].k) \in DOMAIN flat

\* the nodes that stand for a record: those of its label that hold its merge key
NodesOf(resource, ns) ==
    LET unique == UniqueKey(resource, account_id)
    IN {n \in 1..Len(ns) : /\ ns[n].label = ExtractNodeType(resource.resource_type)
                           /\ unique.key \in DOMAIN ns[n].props
                           /\ ns[n].props[unique.key] = VStr(unique.value)}

\* C26: the step that writes the inferred candidates creates each edge between the node
\* of the source and the node of the target of a candidate of its kind, and no more
\* edges than there are candidates.
C26_EdgeOnlyBetweenItsRecords ==
    [][pc = "relationships" =>
          /\ Len(edges') - Len(edges) <= Len(relationships')
          /\ \A e \in (Len(edges) + 1)..Len(edges') :
                 \E i \in 1..Len(relationships') :
                     LET c == relationships'[i]
                     IN /\ edges'[e].type = c.rel_type
                        /\ edges'[e].src \in NodesOf(c.source, nodes')
                        /\ edges'[e].dst \in NodesOf(c.target, nodes')]_vars

\* C27: the resource map of a run has as many entries as the run has valid records, and
\* every valid record is found in it with its type, identifier and properties.
C27_OneEntryPerValidRecord ==
    /\ Len(resources_dict) = Len(resources)
    /\ \A i \in 1..Len(resources) :
           \E j \in 1..Len(resources_dict) :
               /\ resources_dict[j].arn = resources[i].arn
               /\ resources_dict[j].info.resource_type = resources[i].resource_type
               /\ resources_dict[j].info.identifier = resources[i].identifier
               /\ resources_dict[j].info.properties = resources[i].properties

\* C28: the property map of every resource node upsert holds the record's ARN,
\* identifier, resource type and service and the account of the run under arn,
\* identifier, aws_resource_type, service and account_id, its arn is the value of the
\* merge key when the key is arn, and the node hit by the upsert holds the same values
\* until a later upsert hits it.
C28_IdentityPropertiesOfTheRecord ==
    \A i \in 1..Len(writes) :
        LET w == writes[i]
            r == w.resource
            identity == [arn |-> VStr(r.arn), identifier |-> VStr(r.identifier),
                         aws_resource_type |-> VStr(r.resource_type),
                         service |-> VStr(r.service), account_id |-> VStr(account_id)]
        IN /\ HasProps(NodeProps(r, account_id), identity)
           /\ w.key = "arn" => NodeProps(r, account_id).arn = VStr(w.value)
           /\ (\A j \in (i + 1)..Len(writes) : writes[j].hit \cap w.hit = {})
                  => \A n \in w.hit : HasProps(nodes[n].props, identity)

-----------------------------------------------------------------------------
(* The monolithic tool, aws_discovery_2_neo4j.py: from the discovered records *)
(* through save_consolidated_resource_descriptions and update_graph_database  *)
(* to the creation of the route rules.  The behaviours of MonolithSpec are    *)
(* runs with --individual-descriptions and --update-graph over resources      *)
(* whose list calls return.                                                   *)

\* ComprehensiveAWSDiscovery.extract_arn_from_properties; acct is get_account_id()
extract_arn_from_properties(properties, resource_type, identifier, acct) ==
    LET fields == <<"Arn", "ARN", "arn", "ResourceArn">>
        hits == {i \in 1..Len(fields) : HasKey(properties, fields[i])}
        parts == Split(resource_type, "::")
        service == Lower(parts[2])
        resource_name == Lower(parts[Len(parts)])
        owner(key) == IF HasKey(properties, key) THEN Split(Get(properties, key).s, ":")[5]
                      ELSE ""
    IN IF hits # {} THEN Get(properties, fields[CHOOSE i \in hits : \A j \in hits : i <= j]).s
       ELSE IF service = "s3" /\ resource_name = "bucket" THEN "arn:aws:s3:::" \o identifier
       ELSE IF service = "lambda" /\ resource_name = "function"
            THEN "arn:aws:lambda:" \o Region \o ":" \o owner("FunctionArn") \o ":function:"
                 \o identifier
       ELSE IF service = "dynamodb" /\ resource_name = "table"
            THEN "arn:aws:dynamodb:" \o Region \o ":" \o owner("TableArn") \o ":table/"
                 \o identifier
       ELSE IF service = "iam" /\ resource_name \in {"role", "user", "group"}
            THEN "arn:aws:iam::" \o owner("RoleArn") \o ":" \o resource_name \o "/" \o identifier
       ELSE "arn:aws:" \o service \o ":" \o Region \o ":" \o acct \o ":" \o resource_name
            \o "/" \o identifier

\* flatten_value inside ComprehensiveAWSDiscovery._flatten_properties_for_neo4j, on the
\* items of a dictionary
RECURSIVE flatten_value(_, _, _)
flatten_value(kvs, prefix, flattened) ==
    IF Len(kvs) = 0 THEN flattened
    ELSE LET value == kvs[1].v
             new_key == IF prefix # "" THEN prefix \o "_" \o kvs[1].k ELSE kvs[1].k
             after ==
                 IF IsDict(value) THEN flatten_value(value.d, new_key, flattened)
                 ELSE IF IsList(value) /\ \E i \in 1..Len(value.l) : IsContainer(value.l[i])
                      THEN Put(flattened, new_key, VStr(JsonDumps(value)))
                 ELSE Put(flattened, new_key, value)
         IN flatten_value(Tail(kvs), prefix, after)

\* info['resource_type'].replace('-', '_').replace('.', '_').replace(':', '_')
SafeLabel(resource_type) ==
    LET replace(s, old) == JoinStrings(Split(s, old), "_")
    IN replace(replace(replace(resource_type, "-"), "."), ":")

\* the records ComprehensiveAWSDiscovery.discover_resource_type builds for the resources
\* of an inventory, and the rest of the state before save_consolidated_resource_descriptions
MonolithInit ==
    /\ \E scene \in Scenes : inventory \in Inventories(scene, MaxResources)
    /\ \A i \in 1..Len(inventory) : Raised(inventory[i]).class = ""
    /\ account_id \in {CurrentAccount, "unknown"}
    /\ epoch \in 1..2
    /\ all_resources = [i \in 1..Len(inventory) |->
           LET listed == Describe(inventory[i], epoch)
           IN ResourceInfo(listed.resource_type, listed.identifier,
                           extract_arn_from_properties(listed.properties, listed.resource_type,
                                                       listed.identifier, account_id),
                           listed.properties, Region, "")]
    /\ clientFails \in SUBSET (SitesOf(inventory) \cap {"routes"})
    /\ fetchFails = {}
    /\ max_workers = 10
    /\ faults = {}
    /\ config = GraphConfig
    /\ engine_account = account_id
    /\ resources = <<>>
    /\ nodes = <<>>
    /\ edges = <<>>
    /\ clock = 1
    /\ pc = "descriptions"
    /\ run = 1
    /\ resources_dict = <<>>
    /\ relationships = <<>>
    /\ indices = EmptyIndices
    /\ writes = <<>>
    /\ expanded = {}
    /\ endOfRun = <<>>
    /\ neo4j_client = TRUE
    /\ tasks = <<>>
    /\ interrupted = NotInterrupted
    /\ stats = NoStats
    /\ exported = <<>>
    /\ returned = <<>>
    /\ failed = <<>>

\* ComprehensiveAWSDiscovery.save_consolidated_resource_descriptions: the map all_resource,
\* filled in the order in which the description tasks complete; without a valid record
\* the function returns a bare 0 and the run ends before the graph update
SaveConsolidatedResourceDescriptions ==
    /\ pc = "descriptions"
    /\ LET valid_resources == SelectSeq(all_resources, LAMBDA r : r.arn # "" /\ r.error = "")
           n == Len(valid_resources)
       IN IF n = 0
          THEN /\ pc' = "done"
               /\ UNCHANGED resources_dict
          ELSE /\ \E completed \in {p \in [1..n -> 1..n] : \A i, j \in 1..n : p[i] = p[j] => i = j} :
                      resources_dict' =
                          ForEach(LAMBDA all_resource, k :
                                      LET resource == valid_resources[k]
                                          parts == Split(resource.resource_type, "::")
                                          ids == Split(resource.identifier, "|")
                                      IN DictPut(all_resource, resource.arn,
                                             [resource_type |-> IF Len(parts) > 2 THEN parts[3]
                                                                ELSE "Unknown",
                                              service |-> IF Len(parts) > 1 THEN parts[2]
                                                          ELSE "Unknown",
                                              region |-> Region,
                                              identifier |-> resource.identifier,
                                              part1 |-> ids[1],
                                              part2 |-> IF Len(ids) > 1 THEN ids[2] ELSE "",
                                              properties |-> resource.properties]),
                                  <<>>, completed)
               /\ pc' = "graph"
    /\ UNCHANGED <<inventory, max_workers, config, faults, neo4j_client, enumVars, outVars,
                   failed, all_resources, engine_account, resources, account_id, nodes, edges,
                   clock, run, epoch, clientFails, fetchFails, relationships, indices, writes,
                   expanded, endOfRun>>

\* ComprehensiveAWSDiscovery.update_graph_database up to the loop over the map: the
\* account node, then one node and one OWNS edge per entry
UpdateGraphDatabase ==
    /\ pc = "graph"
    /\ LET g0 == IF config.reset_graph THEN ResetGraph(Graph) ELSE Graph
           account == [id |-> VStr(account_id)]
           g1 == MergeNode(g0, "Account", account)
           g2 == Tick(SetNodes(g1, MatchNodes(g1, "Account", account),
                               [name |-> VStr("Account-" \o account_id),
                                created_at |-> Now(g1)]))
           g == ForEach(LAMBDA g3, entry :
                    LET info == entry.info
                        safe_resource_type == SafeLabel(info.resource_type)
                        properties ==
                            flatten_value(info.properties.d, "", <<>>)
                                @@ [arn |-> VStr(entry.arn),
                                    resource_type |-> VStr(info.resource_type),
                                    service |-> VStr(info.service),
                                    account_id |-> VStr(account_id),
                                    identifier |-> VStr(info.identifier)]
                        neo4j_properties ==
                            IF ~IsGlobalService(info.service)
                            THEN Put(properties, "region", VStr(info.region)) ELSE properties
                    IN MatchMatchMerge(MergeSetNode(g3, safe_resource_type, ArnIs(entry.arn),
                                                    neo4j_properties),
                                       "Account", account, safe_resource_type, ArnIs(entry.arn),
                                       "OWNS"),
                    g2, resources_dict)
       IN nodes' = g.nodes /\ edges' = g.edges /\ clock' = g.clock
    /\ pc' = "routes"
    /\ UNCHANGED <<inventory, max_workers, config, faults, neo4j_client, enumVars, outVars,
                   failed, all_resources, engine_account, resources, account_id, run, epoch,
                   clientFails, fetchFails, resources_dict, relationships, indices, writes,
                   expanded, endOfRun>>

\* ComprehensiveAWSDiscovery._create_route_rules with _create_route_target_relationships;
\* expanded records the route tables the step selected and fetched
MonolithCreateRouteRules ==
    /\ pc = "routes"
    /\ LET route_tables == OfType(resources_dict, "AWS::EC2::RouteTable")
           fetched(parent) == /\ parent.info.identifier # ""
                              /\ "routes" \notin clientFails
                              /\ FetchReturns("routes", parent.info.identifier, fetchFails)
           targets(g0, route_properties) ==
               ForEach(LAMBDA g1, mapping :
                   LET target_id == IF mapping.prop \in DOMAIN route_properties
                                    THEN route_properties[mapping.prop].s ELSE ""
                       hits == {i \in 1..Len(resources_dict) :
                                   /\ resources_dict[i].info.resource_type = mapping.type
                                   /\ resources_dict[i].info.identifier = target_id}
                   IN IF target_id # "" /\ target_id # "local" /\ hits # {}
                      THEN MatchMatchMerge(
                               g1, "RouteRule", ArnIs(route_properties.arn.s),
                               SafeLabel(mapping.type),
                               ArnIs(resources_dict[CHOOSE i \in hits : \A j \in hits : i <= j].arn),
                               "ROUTES_TO")
                      ELSE g1,
                   g0, target_mappings)
           rules(g0, parent, routes) ==
               ForEach(LAMBDA g1, i :
                   LET route_properties == RouteProperties(routes[i + 1], i,
                                                           parent.info.identifier, account_id)
                       route_arn == route_properties.arn.s
                       g2 == MergeSetNode(g1, "RouteRule", ArnIs(route_arn), route_properties)
                       g3 == MatchMatchMerge(g2, "Account", [id |-> VStr(account_id)],
                                             "RouteRule", ArnIs(route_arn), "OWNS")
                       g4 == MatchMatchMerge(g3, "AWS_EC2_RouteTable", ArnIs(parent.arn),
                                             "RouteRule", ArnIs(route_arn), "HAS_ROUTE")
                   IN targets(g4, route_properties),
                   g0, [i \in 1..Len(routes) |-> i - 1])
           g == ForEach(LAMBDA g0, parent :
                    IF ~fetched(parent) THEN g0
                    ELSE ForEach(LAMBDA g1, route_table :
                             rules(g1, parent, GetOr(route_table, "Routes", VList(<<>>)).l),
                             g0, GetOr(DescribeRouteTables(parent.info.identifier, epoch),
                                       "RouteTables", VList(<<>>)).l),
                    Graph, route_tables)
       IN /\ nodes' = g.nodes /\ edges' = g.edges /\ clock' = g.clock
          /\ expanded' = {<<"routes", route_tables[i].info.identifier>> :
                             i \in {k \in 1..Len(route_tables) : fetched(route_tables[k])}}
    /\ pc' = "done"
    /\ UNCHANGED <<inventory, max_workers, config, faults, neo4j_client, enumVars, outVars,
                   failed, all_resources, engine_account, resources, account_id, run, epoch,
                   clientFails, fetchFails, resources_dict, relationships, indices, writes,
                   endOfRun>>

MonolithNext ==
    \/ SaveConsolidatedResourceDescriptions
    \/ UpdateGraphDatabase
    \/ MonolithCreateRouteRules

MonolithSpec == MonolithInit /\ [][MonolithNext]_vars

\* C30: when the monolithic tool has created its route rules, every discovered route
\* table that reached the graph update has been selected and expanded by that step and is
\* stored under the label the HAS_ROUTE query matches, and for every expandable parent
\* type the comparison of the expansion filter finds the entries of the records of that
\* type.
C30_ParentsSelectedByExpansion ==
    (pc = "done" /\ resources_dict # <<>>) =>
        \A i \in 1..Len(all_resources) :
            LET r == all_resources[i]
            IN /\ \A k \in 1..Len(Patterns) :
                      r.resource_type = Patterns[k].type
                          => \E j \in 1..Len(resources_dict) :
                                 /\ resources_dict[j].arn = r.arn
                                 /\ resources_dict[j].info.resource_type = Patterns[k].type
               /\ (r.resource_type = "AWS::EC2::RouteTable" /\ clientFails = {})
                      => /\ <<"routes", r.identifier>> \in expanded
                         /\ MatchNodes(Graph, "AWS_EC2_RouteTable", ArnIs(r.arn)) # {}

====
